---- MODULE Spec2Model ----
(***************************************************************************)
(* The game server of among-lies (apps/server/src/game.ts and its engine): *)
(* rooms, players, the phase machine with its one-second timers, the       *)
(* per-client projections and the disconnect / leave paths.                *)
(***************************************************************************)
EXTENDS Integers, Sequences, FiniteSets, TLC

(***************************************************************************)
(* Universe                                                                *)
(***************************************************************************)
\* socket ids; a socket id is never reused after its disconnect
Sessions == {"s1", "s2", "s3", "s4"}
\* values of uuidv4().substring(0, 6).toUpperCase()
RoomIds == {"A", "B"}
NoUser == "guest"
NoOne == "none"
NoWord == "undefined"
NullWord == "null"

\* socket.userId as set by the auth middleware: s1 and s2 are two tabs of one user
UserOf(s) == CASE s = "s1" -> "u1" [] s = "s2" -> "u1" [] s = "s4" -> "u2" [] OTHER -> NoUser

MIN_PLAYERS == 3
MAX_PLAYERS == 4
ROLE_REVEAL_TIME == 1
HINT_TURN_TIME == 1
HINT_ROUNDS == 1
DISCUSSION_TIME == 1
VOTING_TIME == 1
VOTE_RESULT_TIME == 1
HINT_SHOW_TIME == 3
\* RATE_LIMITS.join_game.limit and RATE_LIMITS.create_room.limit, scaled down; every
\* request falls in one window
JOIN_GAME_LIMIT == 1
CREATE_ROOM_LIMIT == 1
\* join_game may be sent again by a joined socket: Player objects per socket
MaxGen == 0
\* games started by start_game (each draws a fresh gameId)
MaxGames == 1

Gens == 0..MaxGen
ObjIds == Sessions \X Gens
Sid(o) == o[1]

EmptyMap == [x \in {} |-> x]
MapSet(m, k, v) == [x \in (DOMAIN m) \cup {k} |-> IF x = k THEN v ELSE m[x]]
MapDel(m, k) == [x \in (DOMAIN m) \ {k} |-> m[x]]
MapGet(m, k, d) == IF k \in DOMAIN m THEN m[k] ELSE d
Range(f) == {f[x] : x \in DOMAIN f}
SeqRemoveAt(s, i) == [j \in 1..(Len(s) - 1) |-> IF j < i THEN s[j] ELSE s[j + 1]]
Reverse(s) == [i \in 1..Len(s) |-> s[Len(s) + 1 - i]]

(***************************************************************************)
(* Words: the hint check compares trimmed, lower-cased strings             *)
(***************************************************************************)
WordList == <<"Apple", "Pear">>
ToLower(str) == CASE str = "Apple" -> "apple" [] str = "Pear" -> "pear"
                  [] str = "APPLE" -> "apple" [] str = "PEAR" -> "pear"
                  [] str = " APPLE " -> " apple " [] str = " PEAR " -> " pear "
                  [] OTHER -> str
Trim(str) == CASE str = " APPLE " -> "APPLE" [] str = " PEAR " -> "PEAR"
               [] str = " apple " -> "apple" [] str = " pear " -> "pear"
               [] str = "  " -> ""
               [] OTHER -> str
\* the word as a client may type it: upper case, with surrounding blanks
Upper(str) == CASE str = "Apple" -> " APPLE " [] str = "Pear" -> " PEAR " [] OTHER -> str

(***************************************************************************)
(* Records                                                                 *)
(***************************************************************************)
\* Player as created by join_game; role / isEliminated / hint / hasVoted start undefined
NewPlayer(s) == [userId |-> UserOf(s), role |-> "NONE", isEliminated |-> FALSE,
                 hint |-> NoWord, hasVoted |-> FALSE]
NoGame == [none |-> TRUE]
HasGame(r) == "phase" \in DOMAIN r.gameState
NoTimer == [kind |-> "NONE", timeLeft |-> 0, active |-> <<>>, orphan |-> FALSE]
NoRoom == [none |-> TRUE]

Phases == {"LOBBY", "ROLE_REVEAL", "HINT_ROUND", "DISCUSSION", "VOTING", "VOTE_RESULT", "GAME_OVER"}

(***************************************************************************)
(* middleware/rate-limit.ts: buckets[key] is the bucket's count, 0 for none *)
(***************************************************************************)
BucketKeys == {"join_game", "create_room"} \X (Sessions \cup {UserOf(s) : s \in Sessions})

checkRateLimit(b, key, limit) ==
    IF b[key] = 0 THEN [ok |-> TRUE, buckets |-> [b EXCEPT ![key] = 1]]
    ELSE IF b[key] >= limit THEN [ok |-> FALSE, buckets |-> b]
    ELSE [ok |-> TRUE, buckets |-> [b EXCEPT ![key] = @ + 1]]

checkEventRateLimit(b, event, socketId, userId) ==
    LET key == IF event = "create_room" /\ userId # NoUser THEN <<event, userId>> ELSE <<event, socketId>>
    IN  checkRateLimit(b, key, IF event = "join_game" THEN JOIN_GAME_LIMIT ELSE CREATE_ROOM_LIMIT)

(***************************************************************************)
(* Pure engine                                                             *)
(***************************************************************************)
\* Math.random() returns k / RandDen for some k in RandNums
RandDen == 4
\* the draws explored when a game starts: 0 and 0.5
RandNums == {0, 2}
\* Math.floor(rand * n)
FloorRand(k, n) == (k * n) \div RandDen

VoteCount(votes, t) == Cardinality({v \in DOMAIN votes : votes[v] = t})

\* the count, had it returned a leading target even when the lead is shared
calculateEliminatedAnyLeader(votes) ==
    LET cands == Range(votes)
        top == {t \in cands : \A u \in cands : VoteCount(votes, t) >= VoteCount(votes, u)}
    IN  IF cands = {} THEN NoOne ELSE CHOOSE t \in top : TRUE

calculateEliminated(votes) ==
    LET cands == Range(votes)
        top == {t \in cands : \A u \in cands : VoteCount(votes, t) >= VoteCount(votes, u)}
    IN  IF cands = {} THEN NoOne
        ELSE IF Cardinality(cands) = 1 \/ Cardinality(top) = 1 THEN CHOOSE t \in top : TRUE
        ELSE NoOne

\* the do-while redraws until the index differs; draws is the stream rand() yields
RECURSIVE DrawImposterIndex(_, _, _)
DrawImposterIndex(citizenIndex, n, draws) ==
    IF draws = <<>> THEN -1
    ELSE IF FloorRand(Head(draws), n) # citizenIndex THEN FloorRand(Head(draws), n)
    ELSE DrawImposterIndex(citizenIndex, n, Tail(draws))

\* the count, had the loop body run once whatever it drew
DrawImposterCallsOnce(citizenIndex, n, draws) == 1

\* how many times the do-while draws before the index differs (0: it never does, and
\* the loop runs for as long as rand repeats these draws)
RECURSIVE DrawImposterCalls(_, _, _)
DrawImposterCalls(citizenIndex, n, draws) ==
    IF draws = <<>> THEN 0
    ELSE IF FloorRand(Head(draws), n) # citizenIndex THEN 1
    ELSE LET rest == DrawImposterCalls(citizenIndex, n, Tail(draws))
         IN  IF rest = 0 THEN 0 ELSE rest + 1

\* the number of randomFn() calls selectWordsForMode makes before it returns (0: it does not return)
selectWordsCalls(mode, wordList, draws) ==
    IF mode = "BLIND" /\ Len(wordList) > 1
    THEN LET k == DrawImposterCalls(FloorRand(Head(draws), Len(wordList)), Len(wordList), Tail(draws))
         IN  IF k = 0 THEN 0 ELSE k + 1
    ELSE 1

\* the selection, had the imposter's word been drawn once without the retry
selectWordsForModeNoRetry(mode, wordList, draws) ==
    LET citizenIndex == FloorRand(Head(draws), Len(wordList))
        citizenWord == wordList[citizenIndex + 1]
    IN  IF mode = "BLIND"
        THEN [citizenWord |-> citizenWord,
              imposterWord |-> IF Len(draws) < 2 THEN citizenWord
                               ELSE wordList[FloorRand(draws[2], Len(wordList)) + 1]]
        ELSE [citizenWord |-> citizenWord, imposterWord |-> NoWord]

selectWordsForMode(mode, wordList, draws) ==
    LET citizenIndex == FloorRand(Head(draws), Len(wordList))
        citizenWord == wordList[citizenIndex + 1]
    IN  IF mode = "BLIND"
        THEN IF Len(wordList) <= 1
             THEN [citizenWord |-> citizenWord, imposterWord |-> citizenWord]
             ELSE LET imposterIndex == DrawImposterIndex(citizenIndex, Len(wordList), Tail(draws))
                  IN  [citizenWord |-> citizenWord,
                       imposterWord |-> IF imposterIndex < 0 THEN NoWord ELSE wordList[imposterIndex + 1]]
        ELSE [citizenWord |-> citizenWord, imposterWord |-> NoWord]

\* weights in halves: the imposter weighs 1 (0.5), every other player 2 (1.0)
Weight2(id, imposterId) == IF id = imposterId THEN 1 ELSE 2
RECURSIVE SumWeight2(_, _)
SumWeight2(ids, imposterId) ==
    IF ids = <<>> THEN 0 ELSE Weight2(Head(ids), imposterId) + SumWeight2(Tail(ids), imposterId)

\* index of the first speaker: random = rand * total, subtract weights until random <= 0
RECURSIVE FirstSpeaker(_, _, _, _)
FirstSpeaker(ids, imposterId, i, random) ==
    IF i > Len(ids) THEN 0
    ELSE IF random - RandDen * Weight2(ids[i], imposterId) <= 0 THEN i
    ELSE FirstSpeaker(ids, imposterId, i + 1, random - RandDen * Weight2(ids[i], imposterId))

\* remaining.sort(() => rand() - 0.5) with every draw below 0.5 or every draw at or
\* above it: the insertion sort then reverses the list or leaves it as it is
SortOutcomes(rest, k) == IF 2 * k < RandDen THEN Reverse(rest) ELSE rest

\* k is the first-speaker draw, k2 the draw the comparator keeps returning
selectTurnOrder(playerIds, imposterId, k, k2) ==
    LET first == FirstSpeaker(playerIds, imposterId, 1, k * SumWeight2(playerIds, imposterId))
        rest == IF first = 0 THEN playerIds ELSE SeqRemoveAt(playerIds, first)
    IN  IF first = 0 THEN SortOutcomes(rest, k2) ELSE <<playerIds[first]>> \o SortOutcomes(rest, k2)

\* the legal edges of the phase graph
canTransition(from, to) ==
    <<from, to>> \in {<<"LOBBY", "ROLE_REVEAL">>, <<"ROLE_REVEAL", "HINT_ROUND">>,
                      <<"HINT_ROUND", "DISCUSSION">>, <<"DISCUSSION", "VOTING">>,
                      <<"VOTING", "VOTE_RESULT">>, <<"VOTE_RESULT", "HINT_ROUND">>,
                      <<"VOTE_RESULT", "GAME_OVER">>, <<"GAME_OVER", "LOBBY">>}

getPhaseDuration(phase) ==
    CASE phase = "ROLE_REVEAL" -> ROLE_REVEAL_TIME
      [] phase = "HINT_ROUND" -> HINT_TURN_TIME
      [] phase = "DISCUSSION" -> DISCUSSION_TIME
      [] phase = "VOTING" -> VOTING_TIME
      [] phase = "VOTE_RESULT" -> VOTE_RESULT_TIME
      [] OTHER -> 0

\* the reducer, had it not asked canTransition
applyPhaseTransitionUnchecked(currentState, targetPhase) ==
    LET newState == [currentState EXCEPT !.phase = targetPhase,
                                         !.phaseTimeLeft = getPhaseDuration(targetPhase)]
    IN  [ok |-> TRUE,
         state |-> CASE targetPhase = "VOTING" -> [newState EXCEPT !.votes = EmptyMap]
                     [] targetPhase = "HINT_ROUND" ->
                           [newState EXCEPT !.currentTurnIndex = 0, !.turnTimeLeft = HINT_TURN_TIME]
                     [] OTHER -> newState]

\* the reducer, had it reset the votes and the turn on every transition
applyPhaseTransitionResetAll(currentState, targetPhase) ==
    IF ~canTransition(currentState.phase, targetPhase)
    THEN [ok |-> FALSE, error |-> "INVALID_TRANSITION", state |-> currentState]
    ELSE [ok |-> TRUE,
          state |-> [currentState EXCEPT !.phase = targetPhase,
                                         !.phaseTimeLeft = getPhaseDuration(targetPhase),
                                         !.votes = EmptyMap,
                                         !.currentTurnIndex = 0,
                                         !.turnTimeLeft = HINT_TURN_TIME]]

applyPhaseTransition(currentState, targetPhase) ==
    IF ~canTransition(currentState.phase, targetPhase)
    THEN [ok |-> FALSE, error |-> "INVALID_TRANSITION", state |-> currentState]
    ELSE LET newState == [currentState EXCEPT !.phase = targetPhase,
                                              !.phaseTimeLeft = getPhaseDuration(targetPhase)]
         IN  [ok |-> TRUE,
              state |-> CASE targetPhase = "VOTING" -> [newState EXCEPT !.votes = EmptyMap]
                          [] targetPhase = "HINT_ROUND" ->
                                [newState EXCEPT !.currentTurnIndex = 0, !.turnTimeLeft = HINT_TURN_TIME]
                          [] OTHER -> newState]

\* the reducer, had a voter's first vote stood
applyVoteKeepFirst(state, cmd) ==
    IF cmd.playerId \in DOMAIN state.votes THEN state.votes
    ELSE MapSet(state.votes, cmd.playerId, cmd.targetId)

applyVote(state, cmd) == MapSet(state.votes, cmd.playerId, cmd.targetId)

\* room players are Player objects; objs holds their fields
PlayerIds(r) == [i \in 1..Len(r.players) |-> Sid(r.players[i])]
InRoom(r, s) == \E i \in 1..Len(r.players) : Sid(r.players[i]) = s
\* room.players.find(p => p.id === s)
FindObj(r, s) == r.players[CHOOSE i \in 1..Len(r.players) :
                              Sid(r.players[i]) = s /\ \A j \in 1..(i - 1) : Sid(r.players[j]) # s]

\* the validator, had it tested the target before the self-vote
validateVoteTargetFirst(r, objs, cmd) ==
    IF ~HasGame(r) THEN "GAME_NOT_STARTED"
    ELSE IF r.gameState.phase # "VOTING" THEN "WRONG_PHASE"
    ELSE IF ~InRoom(r, cmd.targetId) \/ objs[FindObj(r, cmd.targetId)].isEliminated THEN "INVALID_TARGET"
    ELSE IF cmd.playerId = cmd.targetId THEN "CANNOT_VOTE_SELF"
    ELSE "OK"

validateVote(r, objs, cmd) ==
    IF ~HasGame(r) THEN "GAME_NOT_STARTED"
    ELSE IF r.gameState.phase # "VOTING" THEN "WRONG_PHASE"
    ELSE IF cmd.playerId = cmd.targetId THEN "CANNOT_VOTE_SELF"
    ELSE IF ~InRoom(r, cmd.targetId) \/ objs[FindObj(r, cmd.targetId)].isEliminated THEN "INVALID_TARGET"
    ELSE "OK"

handleVote(r, objs, cmd) ==
    LET error == validateVote(r, objs, cmd)
    IN  IF error # "OK" THEN [success |-> FALSE, error |-> error]
        ELSE [success |-> TRUE, nextVotes |-> applyVote(r.gameState, cmd)]

(***************************************************************************)
(* Projections                                                             *)
(***************************************************************************)
\* the projection, had it copied the room's password and the players' userId
sanitizeKeepingSecrets(r, objs) ==
    [id |-> r.id,
     name |-> r.name,
     password |-> r.password,
     players |-> [i \in 1..Len(r.players) |->
                    [id |-> Sid(r.players[i]),
                     userId |-> objs[r.players[i]].userId,
                     role |-> objs[r.players[i]].role,
                     isEliminated |-> objs[r.players[i]].isEliminated,
                     hint |-> objs[r.players[i]].hint,
                     hasVoted |-> objs[r.players[i]].hasVoted]],
     maxPlayers |-> r.maxPlayers,
     ownerId |-> r.ownerId,
     status |-> r.status,
     gameState |-> r.gameState,
     gameMode |-> r.gameMode]

sanitizeRoomForBroadcast(r, objs) ==
    [id |-> r.id,
     name |-> r.name,
     players |-> [i \in 1..Len(r.players) |->
                    [id |-> Sid(r.players[i]),
                     role |-> objs[r.players[i]].role,
                     isEliminated |-> objs[r.players[i]].isEliminated,
                     hint |-> objs[r.players[i]].hint,
                     hasVoted |-> objs[r.players[i]].hasVoted]],
     maxPlayers |-> r.maxPlayers,
     ownerId |-> r.ownerId,
     status |-> r.status,
     gameState |-> r.gameState,
     gameMode |-> r.gameMode]

\* the snapshot with one field replaced
SnapshotWith(playerId, gameState, word, votes) ==
    [phase |-> gameState.phase,
     word |-> word,
     isImposter |-> IF gameState.gameMode = "BLIND" THEN FALSE ELSE playerId = gameState.imposterId,
     currentTurnIndex |-> gameState.currentTurnIndex,
     turnOrder |-> gameState.turnOrder,
     turnTimeLeft |-> gameState.turnTimeLeft,
     phaseTimeLeft |-> gameState.phaseTimeLeft,
     roundNumber |-> gameState.roundNumber,
     hints |-> gameState.hints,
     eliminatedPlayerId |-> gameState.eliminatedPlayerId,
     winner |-> gameState.winner,
     votes |-> votes,
     imposterId |-> IF gameState.phase = "GAME_OVER" THEN gameState.imposterId ELSE NoOne,
     gameMode |-> gameState.gameMode]

\* the snapshot, had it sent the citizens' word to everyone
getPlayerGameDataSameWord(playerId, gameState) ==
    SnapshotWith(playerId, gameState, gameState.word,
                 IF gameState.phase \in {"VOTE_RESULT", "GAME_OVER"} THEN gameState.votes ELSE EmptyMap)

\* the snapshot, had it sent the votes in every phase
getPlayerGameDataAllVotes(playerId, gameState) ==
    SnapshotWith(playerId, gameState,
                 IF gameState.gameMode = "BLIND"
                 THEN (IF playerId = gameState.imposterId THEN gameState.imposterWord ELSE gameState.word)
                 ELSE (IF playerId = gameState.imposterId THEN NullWord ELSE gameState.word),
                 gameState.votes)

getPlayerGameData(playerId, gameState) ==
    LET isActualImposter == playerId = gameState.imposterId
        gameMode == gameState.gameMode
        isImposter == IF gameMode = "BLIND" THEN FALSE ELSE isActualImposter
        word == IF gameMode = "BLIND"
                THEN (IF isActualImposter THEN gameState.imposterWord ELSE gameState.word)
                ELSE (IF isActualImposter THEN NullWord ELSE gameState.word)
    IN  [phase |-> gameState.phase,
         word |-> word,
         isImposter |-> isImposter,
         currentTurnIndex |-> gameState.currentTurnIndex,
         turnOrder |-> gameState.turnOrder,
         turnTimeLeft |-> gameState.turnTimeLeft,
         phaseTimeLeft |-> gameState.phaseTimeLeft,
         roundNumber |-> gameState.roundNumber,
         hints |-> gameState.hints,
         eliminatedPlayerId |-> gameState.eliminatedPlayerId,
         winner |-> gameState.winner,
         votes |-> IF gameState.phase \in {"VOTE_RESULT", "GAME_OVER"} THEN gameState.votes ELSE EmptyMap,
         imposterId |-> IF gameState.phase = "GAME_OVER" THEN gameState.imposterId ELSE NoOne,
         gameMode |-> gameMode]

(***************************************************************************)
(* The imperative shell.  A handler runs on a context c:                   *)
(*   c.r      the Room object it works on                                  *)
(*   c.orph   TRUE when that object is no longer the one in the rooms map  *)
(*   c.objs   the Player objects, c.timers the timers map,                 *)
(*   c.out    the payloads emitted so far, c.stats the recordGameEnd calls *)
(*   c.conn   the connected sockets, c.chan the socket.io channels         *)
(***************************************************************************)
Emit(c, ev, to, data) == [c EXCEPT !.out = @ \cup {[ev |-> ev, to |-> to, data |-> data]}]

\* io.to(room.id).emit('room_update', sanitizeRoomForBroadcast(room))
EmitRoomUpdate(c) == Emit(c, "room_update", c.chan[c.r.id], sanitizeRoomForBroadcast(c.r, c.objs))

broadcastGameState(c) ==
    IF ~HasGame(c.r) THEN c
    ELSE [c EXCEPT !.out = @ \cup
            {[ev |-> "game_state", to |-> {Sid(c.r.players[i])},
              data |-> getPlayerGameData(Sid(c.r.players[i]), c.r.gameState)] :
                i \in {j \in 1..Len(c.r.players) : Sid(c.r.players[j]) \in c.conn}}]

clearRoomTimer(c) == [c EXCEPT !.timers[c.r.id] = NoTimer]

startPhaseTimer(c, duration, kind, active) ==
    [c EXCEPT !.timers[c.r.id] = [kind |-> kind, timeLeft |-> duration, active |-> active, orphan |-> c.orph]]

recordGameStats(c) ==
    IF ~HasGame(c.r) \/ c.r.gameState.winner = "NONE" THEN c
    ELSE [c EXCEPT !.stats[c.r.gameState.gameId] = @ + 1]

\* turnOrder.filter(id => player && !player.isEliminated)
ActivePlayers(r, objs) ==
    SelectSeq(r.gameState.turnOrder, LAMBDA id : InRoom(r, id) /\ ~objs[FindObj(r, id)].isEliminated)

HintCount(gs, id) == IF id \in DOMAIN gs.hints THEN Len(gs.hints[id]) ELSE 0

ClearHintFields(r, objs) ==
    [o \in ObjIds |-> IF \E i \in 1..Len(r.players) : r.players[i] = o
                      THEN [objs[o] EXCEPT !.hint = NoWord] ELSE objs[o]]

\* the next index at or after currentTurnIndex whose player still owes a hint
RECURSIVE NextOwing(_, _, _)
NextOwing(gs, active, i) ==
    IF i >= Len(active) THEN i
    ELSE IF HintCount(gs, active[i + 1]) < gs.roundNumber THEN i
    ELSE NextOwing(gs, active, i + 1)

RECURSIVE transitionToPhase(_, _), startHintTurn(_)

transitionToPhase(c, phase) ==
    IF ~HasGame(c.r) THEN c
    ELSE LET result == applyPhaseTransition(c.r.gameState, phase)
         IN  IF ~result.ok THEN c
             ELSE LET c1 == [c EXCEPT !.r.gameState = result.state]
                      c2 == IF phase = "VOTING"
                            THEN [c1 EXCEPT !.objs = [o \in ObjIds |->
                                     IF \E i \in 1..Len(c1.r.players) : c1.r.players[i] = o
                                     THEN [c1.objs[o] EXCEPT !.hasVoted = FALSE] ELSE c1.objs[o]]]
                            ELSE c1
                      c3 == CASE phase \in {"ROLE_REVEAL", "DISCUSSION", "VOTING", "VOTE_RESULT"} ->
                                    startPhaseTimer(c2, c2.r.gameState.phaseTimeLeft, phase, <<>>)
                              [] phase = "HINT_ROUND" -> startHintTurn(c2)
                              [] phase = "GAME_OVER" -> recordGameStats(clearRoomTimer(c2))
                              [] OTHER -> c2
                  IN  EmitRoomUpdate(broadcastGameState(c3))

\* what the two "round complete" branches of startHintTurn do
HintRoundDone(c) ==
    IF c.r.gameState.roundNumber < HINT_ROUNDS
    THEN startHintTurn([c EXCEPT !.r.gameState.roundNumber = @ + 1,
                                 !.r.gameState.currentTurnIndex = 0,
                                 !.objs = ClearHintFields(c.r, c.objs)])
    ELSE transitionToPhase(c, "DISCUSSION")

startHintTurn(c) ==
    IF ~HasGame(c.r) THEN c
    ELSE LET gs == c.r.gameState
             activePlayers == ActivePlayers(c.r, c.objs)
             allHintsGiven == \A i \in 1..Len(activePlayers) : HintCount(gs, activePlayers[i]) >= gs.roundNumber
         IN  IF allHintsGiven
             THEN LET c1 == broadcastGameState([c EXCEPT !.r.gameState.phaseTimeLeft = HINT_SHOW_TIME])
                  IN  startPhaseTimer(c1, HINT_SHOW_TIME, "HINT_SHOW", <<>>)
             ELSE LET currentIndex == NextOwing(gs, activePlayers, gs.currentTurnIndex)
                  IN  IF currentIndex >= Len(activePlayers)
                      THEN HintRoundDone(c)
                      ELSE LET c1 == [c EXCEPT !.r.gameState.currentTurnIndex = currentIndex,
                                               !.r.gameState.turnTimeLeft = HINT_TURN_TIME]
                           IN  broadcastGameState(startPhaseTimer(c1, HINT_TURN_TIME, "HINT_TURN", activePlayers))

\* resolveVotes, had it marked every player that received a vote
resolveVotesMarkingAllTargets(c) ==
    IF ~HasGame(c.r) THEN c
    ELSE LET eliminatedId == calculateEliminated(c.r.gameState.votes)
             targets == Range(c.r.gameState.votes)
             c1 == [c EXCEPT !.r.gameState.eliminatedPlayerId = eliminatedId,
                             !.objs = [o \in ObjIds |->
                                IF (\E i \in 1..Len(c.r.players) : c.r.players[i] = o) /\ Sid(o) \in targets
                                THEN [c.objs[o] EXCEPT !.isEliminated = TRUE] ELSE c.objs[o]]]
         IN  transitionToPhase(c1, "VOTE_RESULT")

resolveVotes(c) ==
    IF ~HasGame(c.r) THEN c
    ELSE LET eliminatedId == calculateEliminated(c.r.gameState.votes)
         IN  IF eliminatedId = NoOne
             THEN transitionToPhase([c EXCEPT !.r.gameState.eliminatedPlayerId = NoOne], "VOTE_RESULT")
             ELSE LET c1 == [c EXCEPT !.r.gameState.eliminatedPlayerId = eliminatedId]
                      c2 == IF InRoom(c1.r, eliminatedId)
                            THEN [c1 EXCEPT !.objs[FindObj(c1.r, eliminatedId)].isEliminated = TRUE]
                            ELSE c1
                  IN  transitionToPhase(c2, "VOTE_RESULT")

\* checkGameEnd, had an undecided game kept the votes of the round that ended
checkGameEndKeepingVotes(c) ==
    IF ~HasGame(c.r) THEN c
    ELSE LET gs == c.r.gameState
             imposterEliminated == InRoom(c.r, gs.imposterId) /\ c.objs[FindObj(c.r, gs.imposterId)].isEliminated
             activeCitizens == {i \in 1..Len(c.r.players) :
                                   c.objs[c.r.players[i]].role = "CITIZEN" /\ ~c.objs[c.r.players[i]].isEliminated}
         IN  IF imposterEliminated
             THEN transitionToPhase([c EXCEPT !.r.gameState.winner = "CITIZENS", !.r.status = "ENDED"], "GAME_OVER")
             ELSE IF Cardinality(activeCitizens) <= 1
             THEN transitionToPhase([c EXCEPT !.r.gameState.winner = "IMPOSTER", !.r.status = "ENDED"], "GAME_OVER")
             ELSE transitionToPhase(
                    [c EXCEPT !.r.gameState.roundNumber = @ + 1,
                              !.r.gameState.hints = EmptyMap,
                              !.r.gameState.eliminatedPlayerId = NoOne,
                              !.objs = [o \in ObjIds |->
                                  IF \E i \in 1..Len(c.r.players) : c.r.players[i] = o
                                  THEN [c.objs[o] EXCEPT !.hint = NoWord, !.hasVoted = FALSE] ELSE c.objs[o]]],
                    "HINT_ROUND")

\* checkGameEnd, had the imposter won only once no citizen is left
checkGameEndLastCitizen(c) ==
    IF ~HasGame(c.r) THEN c
    ELSE LET gs == c.r.gameState
             imposterEliminated == InRoom(c.r, gs.imposterId) /\ c.objs[FindObj(c.r, gs.imposterId)].isEliminated
             activeCitizens == {i \in 1..Len(c.r.players) :
                                   c.objs[c.r.players[i]].role = "CITIZEN" /\ ~c.objs[c.r.players[i]].isEliminated}
         IN  IF imposterEliminated
             THEN transitionToPhase([c EXCEPT !.r.gameState.winner = "CITIZENS", !.r.status = "ENDED"], "GAME_OVER")
             ELSE IF Cardinality(activeCitizens) < 1
             THEN transitionToPhase([c EXCEPT !.r.gameState.winner = "IMPOSTER", !.r.status = "ENDED"], "GAME_OVER")
             ELSE transitionToPhase(
                    [c EXCEPT !.r.gameState.roundNumber = @ + 1,
                              !.r.gameState.hints = EmptyMap,
                              !.r.gameState.votes = EmptyMap,
                              !.r.gameState.eliminatedPlayerId = NoOne,
                              !.objs = [o \in ObjIds |->
                                  IF \E i \in 1..Len(c.r.players) : c.r.players[i] = o
                                  THEN [c.objs[o] EXCEPT !.hint = NoWord, !.hasVoted = FALSE] ELSE c.objs[o]]],
                    "HINT_ROUND")

checkGameEnd(c) ==
    IF ~HasGame(c.r) THEN c
    ELSE LET gs == c.r.gameState
             imposterEliminated == InRoom(c.r, gs.imposterId) /\ c.objs[FindObj(c.r, gs.imposterId)].isEliminated
             activeCitizens == {i \in 1..Len(c.r.players) :
                                   c.objs[c.r.players[i]].role = "CITIZEN" /\ ~c.objs[c.r.players[i]].isEliminated}
         IN  IF imposterEliminated
             THEN transitionToPhase([c EXCEPT !.r.gameState.winner = "CITIZENS", !.r.status = "ENDED"], "GAME_OVER")
             ELSE IF Cardinality(activeCitizens) <= 1
             THEN transitionToPhase([c EXCEPT !.r.gameState.winner = "IMPOSTER", !.r.status = "ENDED"], "GAME_OVER")
             ELSE transitionToPhase(
                    [c EXCEPT !.r.gameState.roundNumber = @ + 1,
                              !.r.gameState.hints = EmptyMap,
                              !.r.gameState.votes = EmptyMap,
                              !.r.gameState.eliminatedPlayerId = NoOne,
                              !.objs = [o \in ObjIds |->
                                  IF \E i \in 1..Len(c.r.players) : c.r.players[i] = o
                                  THEN [c.objs[o] EXCEPT !.hint = NoWord, !.hasVoted = FALSE] ELSE c.objs[o]]],
                    "HINT_ROUND")

(***************************************************************************)
(* State of the GameLogic instance                                         *)
(***************************************************************************)
VARIABLES
    conn,         \* sockets whose connection is open
    players,      \* this.players: socket id -> its current Player object (-1: none)
    objs,         \* the fields of the Player objects
    rooms,        \* this.rooms, in Map insertion order
    timers,       \* this.timers: room id -> the interval registered under it
    orphans,      \* Room objects no longer in this.rooms that a registered interval still drives
    chan,         \* socket.io channels: room id -> sockets joined to it
    userSockets,  \* this.userSockets: user id -> socket ids
    stats,        \* gameId -> number of recordGameEnd calls made for it
    nextGameId,   \* the games initialised so far, plus one
    buckets,      \* the rate limiter's buckets
    outbox,       \* the payloads the last handler emitted
    fnCall,       \* a call of one of the engine's pure functions: its name and arguments
    fnResult,     \* what that call returned
    friends,      \* the friendships table as getFriends reads it: user id -> friend ids
    notices,      \* notifyFriends calls still waiting for their getFriends query
    db,           \* the stats tables: game_results, game_participants and the rpc calls received
    statsCalls    \* the recordGameEnd calls made, each with the statement it has reached

vars == <<conn, players, objs, rooms, timers, orphans, chan, userSockets, stats, nextGameId, buckets, outbox,
          fnCall, fnResult, friends, notices, db, statsCalls>>

\* the state as one record, with nothing emitted yet
World ==
    [conn |-> conn, players |-> players, objs |-> objs, rooms |-> rooms, timers |-> timers,
     orphans |-> orphans, chan |-> chan, userSockets |-> userSockets, stats |-> stats,
     nextGameId |-> nextGameId, buckets |-> buckets, friends |-> friends, notices |-> notices, out |-> {}]

RoomIndex(rs, id) == CHOOSE i \in 1..Len(rs) : rs[i].id = id
HasRoom(rs, id) == \E i \in 1..Len(rs) : rs[i].id = id
GetRoom(rs, id) == rs[RoomIndex(rs, id)]

\* Player objects something still refers to
Referenced(w) ==
    {<<s, w.players[s]>> : s \in {t \in Sessions : w.players[t] >= 0}}
    \cup UNION {Range(w.rooms[i].players) : i \in 1..Len(w.rooms)}
    \cup UNION {Range(w.orphans[id].players) : id \in {x \in RoomIds : "id" \in DOMAIN w.orphans[x]}}

\* objects and orphan rooms nothing refers to any more are forgotten
Normalize(w) ==
    LET w1 == [w EXCEPT !.orphans = [id \in RoomIds |->
                    IF w.timers[id].kind # "NONE" /\ w.timers[id].orphan THEN w.orphans[id] ELSE NoRoom]]
    IN  [w1 EXCEPT !.objs = [o \in ObjIds |-> IF o \in Referenced(w1) THEN w1.objs[o] ELSE NewPlayer(Sid(o))]]

Commit(w0) ==
    LET w == Normalize(w0)
    IN  /\ conn' = w.conn
        /\ players' = w.players
        /\ objs' = w.objs
        /\ rooms' = w.rooms
        /\ timers' = w.timers
        /\ orphans' = w.orphans
        /\ chan' = w.chan
        /\ userSockets' = w.userSockets
        /\ stats' = w.stats
        /\ nextGameId' = w.nextGameId
        /\ buckets' = w.buckets
        /\ outbox' = w.out
        /\ friends' = w.friends
        /\ notices' = w.notices
        /\ UNCHANGED <<fnCall, fnResult, db, statsCalls>>

\* sockets whose clients send requests the server answers with an error
Probers == {"s2"}

\* socket.emit('error', code); return
Reject(w, s, code) ==
    /\ s \in Probers
    /\ Commit([w EXCEPT !.out = {[ev |-> "error", to |-> {s}, data |-> [code |-> code]]}])

\* a handler context on the room stored under id, and its write-back
Ctx(w, id) ==
    [r |-> GetRoom(w.rooms, id), orph |-> FALSE, objs |-> w.objs, timers |-> w.timers,
     out |-> w.out, stats |-> w.stats, conn |-> w.conn, chan |-> w.chan]
CtxOrphan(w, id) ==
    [r |-> w.orphans[id], orph |-> TRUE, objs |-> w.objs, timers |-> w.timers,
     out |-> w.out, stats |-> w.stats, conn |-> w.conn, chan |-> w.chan]
Put(w, c) ==
    LET w1 == [w EXCEPT !.objs = c.objs, !.timers = c.timers, !.out = c.out, !.stats = c.stats]
    IN  IF c.orph THEN [w1 EXCEPT !.orphans[c.r.id] = c.r]
        ELSE [w1 EXCEPT !.rooms[RoomIndex(w.rooms, c.r.id)] = c.r]

\* this.rooms.delete(id); an interval still registered under id keeps the object alive
DeleteRoom(w, id) ==
    LET i == RoomIndex(w.rooms, id)
        w1 == [w EXCEPT !.rooms = SeqRemoveAt(w.rooms, i)]
    IN  IF w.timers[id].kind # "NONE" /\ ~w.timers[id].orphan
        THEN [w1 EXCEPT !.orphans[id] = w.rooms[i], !.timers[id].orphan = TRUE]
        ELSE w1

\* the signed-in users, and a friendships table without rows
Users == {UserOf(s) : s \in Sessions} \ {NoUser}
NoFriends == [u \in Users |-> {}]

\* notifyFriends up to its await: the call waits for getFriends; for a user without
\* friends the loop that follows has nothing to do and the call is not kept
notifyFriends(w, userId, event) ==
    IF w.friends[userId] = {} THEN w
    ELSE [w EXCEPT !.notices = Append(@, [userId |-> userId, event |-> event])]

\* the server after construction
InitEmpty ==
    [conn |-> Sessions, players |-> [s \in Sessions |-> -1], objs |-> [o \in ObjIds |-> NewPlayer(Sid(o))],
     rooms |-> <<>>, timers |-> [id \in RoomIds |-> NoTimer], orphans |-> [id \in RoomIds |-> NoRoom],
     chan |-> [id \in RoomIds |-> {}], userSockets |-> EmptyMap, stats |-> [g \in 1..MaxGames |-> 0],
     nextGameId |-> 1, buckets |-> [k \in BucketKeys |-> 0], friends |-> NoFriends, notices |-> <<>>,
     out |-> {}]

InitFrom(w) ==
    /\ conn = w.conn
    /\ players = w.players
    /\ objs = w.objs
    /\ rooms = w.rooms
    /\ timers = w.timers
    /\ orphans = w.orphans
    /\ chan = w.chan
    /\ userSockets = w.userSockets
    /\ stats = w.stats
    /\ nextGameId = w.nextGameId
    /\ buckets = w.buckets
    /\ outbox = w.out
    /\ friends = w.friends
    /\ notices = w.notices

\* no pure-function call is under way
NoCall == [fn |-> "none"]
\* the stats tables without rows
StatsGames == {"g1", "g2"}
EmptyDb == [game_results |-> {}, game_participants |-> [g \in StatsGames |-> <<>>], daily_stats |-> 0]
InitServer(w) == InitFrom(w) /\ fnCall = NoCall /\ fnResult = NoCall /\ db = EmptyDb /\ statsCalls = <<>>

(***************************************************************************)
(* Handlers                                                                *)
(***************************************************************************)
\* join_game: a fresh Player object replaces the socket's entry in this.players
FreeGen(w, s) ==
    IF w.players[s] >= 0 /\ <<s, w.players[s]>> \notin Referenced([w EXCEPT !.players[s] = -1])
    THEN {w.players[s]}
    ELSE {g \in Gens : <<s, g>> \notin Referenced(w) /\ \A h \in Gens : <<s, h>> \notin Referenced(w) => g <= h}

JoinGame(s) ==
    /\ s \in conn
    /\ LET w == World
           userId == UserOf(s)
           rate == checkEventRateLimit(buckets, "join_game", s, userId)
       IN  IF ~rate.ok THEN Reject(w, s, "RATE_LIMITED")
           ELSE \E g \in FreeGen(w, s) :
             LET w1 == [w EXCEPT !.buckets = rate.buckets,
                                 !.players[s] = g,
                                 !.objs[<<s, g>>] = NewPlayer(s)]
                 userSocketSet == MapGet(w1.userSockets, userId, {})
                 w2 == IF userId # NoUser /\ userSocketSet = {}
                       THEN notifyFriends(w1, userId, "friend_online") ELSE w1
             IN  Commit(IF userId = NoUser THEN w2
                        ELSE [w2 EXCEPT !.userSockets = MapSet(@, userId, userSocketSet \cup {s})])

CreateRoom(s, roomId, password, gameMode) ==
    /\ s \in conn
    /\ players[s] >= 0
    /\ LET w == World
           rate == checkEventRateLimit(buckets, "create_room", s, UserOf(s))
           room == [id |-> roomId, name |-> "room", password |-> password,
                    players |-> <<(<<s, players[s]>>)>>, maxPlayers |-> MAX_PLAYERS, ownerId |-> s,
                    status |-> "LOBBY", gameMode |-> gameMode, gameState |-> NoGame]
           \* this.rooms.set(roomId, room): an existing key keeps its place in the Map
           w1 == IF HasRoom(w.rooms, roomId)
                 THEN LET i == RoomIndex(w.rooms, roomId)
                          w0 == [w EXCEPT !.rooms[i] = room]
                      IN  IF w.timers[roomId].kind # "NONE" /\ ~w.timers[roomId].orphan
                          THEN [w0 EXCEPT !.orphans[roomId] = w.rooms[i], !.timers[roomId].orphan = TRUE]
                          ELSE w0
                 ELSE [w EXCEPT !.rooms = Append(@, room)]
           w2 == [w1 EXCEPT !.chan[roomId] = @ \cup {s}, !.buckets = rate.buckets]
       IN  IF ~rate.ok THEN Reject(w, s, "RATE_LIMITED")
           ELSE Commit([w2 EXCEPT !.out = @ \cup
                          {[ev |-> "room_update", to |-> {s}, data |-> sanitizeRoomForBroadcast(room, w2.objs)]}])

\* join_room, had it pushed the player without looking for it in the room
JoinRoomNoLookup(s, roomId, password) ==
    /\ s \in conn
    /\ LET w == World
       IN  IF players[s] >= 0 /\ HasRoom(rooms, roomId)
           THEN LET room == GetRoom(rooms, roomId)
                IN  IF room.password # NoWord /\ room.password # password
                    THEN Reject(w, s, "INCORRECT PASSWORD")
                    ELSE IF Len(room.players) < room.maxPlayers /\ room.status = "LOBBY"
                    THEN LET w1 == [w EXCEPT !.rooms[RoomIndex(rooms, roomId)].players =
                                                  Append(@, <<s, players[s]>>)]
                             w2 == [w1 EXCEPT !.chan[roomId] = @ \cup {s}]
                         IN  Commit(Put(w2, EmitRoomUpdate(Ctx(w2, roomId))))
                    ELSE Reject(w, s, IF room.status # "LOBBY" THEN "GAME ALREADY STARTED" ELSE "ROOM IS FULL")
           ELSE Reject(w, s, "ROOM NOT FOUND")

JoinRoom(s, roomId, password) ==
    /\ s \in conn
    /\ LET w == World
       IN  IF players[s] >= 0 /\ HasRoom(rooms, roomId)
           THEN LET room == GetRoom(rooms, roomId)
                IN  IF room.password # NoWord /\ room.password # password
                    THEN Reject(w, s, "INCORRECT PASSWORD")
                    ELSE IF Len(room.players) < room.maxPlayers /\ room.status = "LOBBY"
                    THEN LET w1 == IF ~InRoom(room, s)
                                   THEN [w EXCEPT !.rooms[RoomIndex(rooms, roomId)].players =
                                                       Append(@, <<s, players[s]>>)]
                                   ELSE w
                             w2 == [w1 EXCEPT !.chan[roomId] = @ \cup {s}]
                         IN  Commit(Put(w2, EmitRoomUpdate(Ctx(w2, roomId))))
                    ELSE Reject(w, s, IF room.status # "LOBBY" THEN "GAME ALREADY STARTED" ELSE "ROOM IS FULL")
           ELSE Reject(w, s, "ROOM NOT FOUND")

\* index of the player with id s in room.players (findIndex)
PlayerIndex(r, s) == CHOOSE i \in 1..Len(r.players) :
                        Sid(r.players[i]) = s /\ \A j \in 1..(i - 1) : Sid(r.players[j]) # s

\* the clean-up, had it not ended the game when the imposter leaves
ScrubGameStateOnly(c, s) ==
    LET gs == c.r.gameState
        votes1 == MapDel(gs.votes, s)
        c1 == [c EXCEPT !.r.gameState.turnOrder = SelectSeq(@, LAMBDA id : id # s),
                        !.r.gameState.votes = [v \in {x \in DOMAIN votes1 : votes1[x] # s} |-> votes1[v]],
                        !.r.gameState.hints = MapDel(@, s)]
        n == Len(c1.r.gameState.turnOrder)
    IN  IF n > 0 /\ c1.r.gameState.currentTurnIndex >= n
        THEN [c1 EXCEPT !.r.gameState.currentTurnIndex = @ % n]
        ELSE c1

\* the clean-up, had it left currentTurnIndex where it was
ScrubGameStateNoWrap(c, s) ==
    LET gs == c.r.gameState
        votes1 == MapDel(gs.votes, s)
        votes2 == [v \in {x \in DOMAIN votes1 : votes1[x] # s} |-> votes1[v]]
        gs1 == [gs EXCEPT !.turnOrder = SelectSeq(@, LAMBDA id : id # s),
                          !.votes = votes2,
                          !.hints = MapDel(@, s)]
        c1 == [c EXCEPT !.r.gameState = gs1]
    IN  IF gs1.imposterId = s /\ gs1.phase # "GAME_OVER"
        THEN recordGameStats(clearRoomTimer(
               [c1 EXCEPT !.r.gameState.winner = "CITIZENS",
                          !.r.gameState.phase = "GAME_OVER",
                          !.r.status = "ENDED"]))
        ELSE c1

\* the gameState clean-up of leaveRoom
ScrubGameState(c, s) ==
    LET gs == c.r.gameState
        votes1 == MapDel(gs.votes, s)
        votes2 == [v \in {x \in DOMAIN votes1 : votes1[x] # s} |-> votes1[v]]
        gs1 == [gs EXCEPT !.turnOrder = SelectSeq(@, LAMBDA id : id # s),
                          !.votes = votes2,
                          !.hints = MapDel(@, s)]
        c1 == [c EXCEPT !.r.gameState = gs1]
        c2 == IF gs1.imposterId = s /\ gs1.phase # "GAME_OVER"
              THEN recordGameStats(clearRoomTimer(
                     [c1 EXCEPT !.r.gameState.winner = "CITIZENS",
                                !.r.gameState.phase = "GAME_OVER",
                                !.r.status = "ENDED"]))
              ELSE c1
        n == Len(c2.r.gameState.turnOrder)
    IN  IF n > 0 /\ c2.r.gameState.currentTurnIndex >= n
        THEN [c2 EXCEPT !.r.gameState.currentTurnIndex = @ % n]
        ELSE c2

\* leaveRoom's loop body, had it cleaned the game state of a game that has ended too
leaveRoomInAnyStatus(w, roomId, s) ==
    LET room == GetRoom(w.rooms, roomId)
    IN  IF ~InRoom(room, s) THEN w
        ELSE LET wasOwner == room.ownerId = s
                 c0 == [Ctx(w, roomId) EXCEPT !.r.players = SeqRemoveAt(@, PlayerIndex(room, s))]
             IN  IF Len(c0.r.players) = 0
                 THEN DeleteRoom(Put(w, clearRoomTimer(c0)), roomId)
                 ELSE LET c1 == IF wasOwner THEN [c0 EXCEPT !.r.ownerId = Sid(c0.r.players[1])] ELSE c0
                          c2 == IF HasGame(c1.r) THEN ScrubGameState(c1, s) ELSE c1
                          c3 == IF c2.r.status = "PLAYING" /\ Len(c2.r.players) < MIN_PLAYERS
                                THEN clearRoomTimer([c2 EXCEPT !.r.status = "LOBBY", !.r.gameState = NoGame])
                                ELSE c2
                      IN  Put(w, EmitRoomUpdate(c3))

\* the body of leaveRoom's this.rooms.forEach for one room
leaveRoomIn(w, roomId, s) ==
    LET room == GetRoom(w.rooms, roomId)
    IN  IF ~InRoom(room, s) THEN w
        ELSE LET wasOwner == room.ownerId = s
                 c0 == [Ctx(w, roomId) EXCEPT !.r.players = SeqRemoveAt(@, PlayerIndex(room, s))]
             IN  IF Len(c0.r.players) = 0
                 THEN DeleteRoom(Put(w, clearRoomTimer(c0)), roomId)
                 ELSE LET c1 == IF wasOwner THEN [c0 EXCEPT !.r.ownerId = Sid(c0.r.players[1])] ELSE c0
                          c2 == IF HasGame(c1.r) /\ c1.r.status = "PLAYING" THEN ScrubGameState(c1, s) ELSE c1
                          c3 == IF c2.r.status = "PLAYING" /\ Len(c2.r.players) < MIN_PLAYERS
                                THEN clearRoomTimer([c2 EXCEPT !.r.status = "LOBBY", !.r.gameState = NoGame])
                                ELSE c2
                      IN  Put(w, EmitRoomUpdate(c3))

RECURSIVE leaveRoom(_, _, _)
leaveRoom(w, ids, s) ==
    IF ids = <<>> THEN w
    ELSE leaveRoom(IF HasRoom(w.rooms, Head(ids)) THEN leaveRoomIn(w, Head(ids), s) ELSE w, Tail(ids), s)

RoomIdsInOrder(rs) == [i \in 1..Len(rs) |-> rs[i].id]

\* 'disconnect': the socket has already left its channels when the handler runs
\* the disconnect handler, had it announced every closed session of a user
DisconnectAnnouncingEach(s) ==
    /\ s \in conn
    /\ LET w0 == [World EXCEPT !.conn = @ \ {s}, !.chan = [id \in RoomIds |-> chan[id] \ {s}]]
       IN  IF players[s] < 0 THEN Commit(w0)
           ELSE LET userId == objs[<<s, players[s]>>].userId
                    w1 == IF userId # NoUser /\ userId \in DOMAIN w0.userSockets
                          THEN IF w0.userSockets[userId] \ {s} = {}
                               THEN notifyFriends([w0 EXCEPT !.userSockets = MapDel(@, userId)], userId, "friend_offline")
                               ELSE notifyFriends([w0 EXCEPT !.userSockets[userId] = @ \ {s}], userId, "friend_offline")
                          ELSE w0
                    w2 == leaveRoom(w1, RoomIdsInOrder(w1.rooms), s)
                IN  Commit([w2 EXCEPT !.players[s] = -1])

Disconnect(s) ==
    /\ s \in conn
    /\ LET w0 == [World EXCEPT !.conn = @ \ {s}, !.chan = [id \in RoomIds |-> chan[id] \ {s}]]
       IN  IF players[s] < 0 THEN Commit(w0)
           ELSE LET userId == objs[<<s, players[s]>>].userId
                    w1 == IF userId # NoUser /\ userId \in DOMAIN w0.userSockets
                          THEN IF w0.userSockets[userId] \ {s} = {}
                               THEN notifyFriends([w0 EXCEPT !.userSockets = MapDel(@, userId)], userId, "friend_offline")
                               ELSE [w0 EXCEPT !.userSockets[userId] = @ \ {s}]
                          ELSE w0
                    w2 == leaveRoom(w1, RoomIdsInOrder(w1.rooms), s)
                IN  Commit([w2 EXCEPT !.players[s] = -1])

\* the body of the leave_room handler's this.rooms.forEach for one room
LeaveRoomHandlerIn(w, roomId, s) ==
    LET room == GetRoom(w.rooms, roomId)
    IN  IF ~InRoom(room, s) THEN w
        ELSE LET wasOwner == room.ownerId = s
                 w0 == [w EXCEPT !.chan[roomId] = @ \ {s}]
                 c0 == [Ctx(w0, roomId) EXCEPT !.r.players = SeqRemoveAt(@, PlayerIndex(room, s))]
                 w1 == IF Len(c0.r.players) = 0
                       THEN DeleteRoom(Put(w0, clearRoomTimer(c0)), roomId)
                       ELSE LET c1 == IF wasOwner THEN [c0 EXCEPT !.r.ownerId = Sid(c0.r.players[1])] ELSE c0
                                c2 == IF c1.r.status = "PLAYING" /\ Len(c1.r.players) < MIN_PLAYERS
                                      THEN clearRoomTimer([c1 EXCEPT !.r.status = "LOBBY", !.r.gameState = NoGame])
                                      ELSE c1
                            IN  Put(w0, EmitRoomUpdate(c2))
             IN  [w1 EXCEPT !.out = @ \cup {[ev |-> "room_update", to |-> {s}, data |-> NoRoom]}]

RECURSIVE LeaveRoomHandler(_, _, _)
LeaveRoomHandler(w, ids, s) ==
    IF ids = <<>> THEN w
    ELSE LeaveRoomHandler(IF HasRoom(w.rooms, Head(ids)) THEN LeaveRoomHandlerIn(w, Head(ids), s) ELSE w,
                          Tail(ids), s)

LeaveRoom(s) ==
    /\ s \in conn
    /\ players[s] >= 0
    /\ Commit(LeaveRoomHandler(World, RoomIdsInOrder(rooms), s))

\* the streams Math.random() can yield while the words are drawn
RandStreams == {<<0, 0, 2>>}

\* Array.from(this.rooms.values()).find(T): the first room in Map order
FirstRoom(rs, T(_)) == rs[CHOOSE i \in 1..Len(rs) : T(rs[i]) /\ \A j \in 1..(i - 1) : ~T(rs[j])]
SomeRoom(rs, T(_)) == \E i \in 1..Len(rs) : T(rs[i])

initializeGame(c, draws, imposterDraw, turnOrder, gameId) ==
    LET gameMode == c.r.gameMode
        words == selectWordsForMode(gameMode, WordList, draws)
        imposterId == Sid(c.r.players[FloorRand(imposterDraw, Len(c.r.players)) + 1])
    IN  [c EXCEPT !.objs = [o \in ObjIds |->
                     IF \E i \in 1..Len(c.r.players) : c.r.players[i] = o
                     THEN [c.objs[o] EXCEPT !.role = IF Sid(o) = imposterId THEN "IMPOSTER" ELSE "CITIZEN",
                                            !.isEliminated = FALSE, !.hint = NoWord, !.hasVoted = FALSE]
                     ELSE c.objs[o]],
                  !.r.gameState =
                     [gameId |-> gameId, phase |-> "ROLE_REVEAL", word |-> words.citizenWord,
                      imposterId |-> imposterId, currentTurnIndex |-> 0, turnOrder |-> turnOrder,
                      turnTimeLeft |-> HINT_TURN_TIME, phaseTimeLeft |-> ROLE_REVEAL_TIME,
                      roundNumber |-> 1, votes |-> EmptyMap, hints |-> EmptyMap,
                      eliminatedPlayerId |-> NoOne, winner |-> "NONE",
                      gameMode |-> gameMode, imposterWord |-> words.imposterWord]]

\* start_game, while fewer than maxGames games have been initialised
StartGameUpTo(s, maxGames) ==
    /\ s \in conn
    /\ players[s] >= 0
    /\ LET w == World
           Owned(r) == r.ownerId = s
       IN  IF ~SomeRoom(rooms, Owned)
           THEN Reject(w, s, "YOU ARE NOT THE HOST")
           ELSE LET room == FirstRoom(rooms, Owned)
                IN  IF Len(room.players) < MIN_PLAYERS
                    THEN Reject(w, s, "NEED AT LEAST 3 PLAYERS")
                    ELSE /\ nextGameId <= maxGames
                         /\ \E draws \in RandStreams, imposterDraw \in RandNums, firstDraw \in {0},
                                 sortDraw \in {2} :
                              LET imposterId == Sid(room.players[FloorRand(imposterDraw, Len(room.players)) + 1])
                                  turnOrder == selectTurnOrder(PlayerIds(room), imposterId, firstDraw, sortDraw)
                              IN       LET c0 == [Ctx(w, room.id) EXCEPT !.r.status = "PLAYING"]
                                           c1 == initializeGame(c0, draws, imposterDraw, turnOrder, nextGameId)
                                           c2 == transitionToPhase(EmitRoomUpdate(c1), "ROLE_REVEAL")
                                       IN  Commit([Put(w, c2) EXCEPT !.nextGameId = @ + 1])

StartGame(s) == StartGameUpTo(s, MaxGames)

\* hint.trim().substring(0, 50) || '(Empty)'   (no modelled hint is longer than 50)
CleanHint(hint) == IF Trim(hint) = "" THEN "(Empty)" ELSE Trim(hint)

\* the hints a client sends: a clue, or the secret word in another spelling
HintInputs(r) == {"clue", Upper(r.gameState.word)}

\* submit_hint, had it compared the hint with the word letter for letter
SubmitHintExactWord(s) ==
    /\ s \in conn
    /\ players[s] >= 0
    /\ LET w == World
           Mine(r) == InRoom(r, s) /\ HasGame(r) /\ r.gameState.phase = "HINT_ROUND"
       IN  /\ SomeRoom(rooms, Mine)
           /\ LET room == FirstRoom(rooms, Mine)
                  activePlayers == ActivePlayers(room, objs)
                  idx == room.gameState.currentTurnIndex
                  currentPlayerId == IF idx + 1 \in 1..Len(activePlayers) THEN activePlayers[idx + 1] ELSE NoWord
              IN  \E hint \in HintInputs(room) :
                    IF currentPlayerId # s
                    THEN Reject(w, s, "NOT YOUR TURN")
                    ELSE IF Trim(hint) = room.gameState.word
                    THEN Reject(w, s, "CANNOT USE THE SECRET WORD AS HINT")
                    ELSE LET cleanHint == CleanHint(hint)
                             c0 == Ctx(w, room.id)
                             c1 == [c0 EXCEPT !.r.gameState.hints =
                                                 MapSet(@, s, Append(MapGet(@, s, <<>>), cleanHint)),
                                              !.objs[<<s, players[s]>>].hint = cleanHint,
                                              !.r.gameState.currentTurnIndex = @ + 1]
                             c2 == startHintTurn(clearRoomTimer(c1))
                         IN  Commit(Put(w, broadcastGameState(c2)))

SubmitHint(s) ==
    /\ s \in conn
    /\ players[s] >= 0
    /\ LET w == World
           Mine(r) == InRoom(r, s) /\ HasGame(r) /\ r.gameState.phase = "HINT_ROUND"
       IN  /\ SomeRoom(rooms, Mine)
           /\ LET room == FirstRoom(rooms, Mine)
                  activePlayers == ActivePlayers(room, objs)
                  idx == room.gameState.currentTurnIndex
                  currentPlayerId == IF idx + 1 \in 1..Len(activePlayers) THEN activePlayers[idx + 1] ELSE NoWord
              IN  \E hint \in HintInputs(room) :
                    IF currentPlayerId # s
                    THEN Reject(w, s, "NOT YOUR TURN")
                    ELSE IF ToLower(Trim(hint)) = ToLower(room.gameState.word)
                    THEN Reject(w, s, "CANNOT USE THE SECRET WORD AS HINT")
                    ELSE LET cleanHint == CleanHint(hint)
                             c0 == Ctx(w, room.id)
                             c1 == [c0 EXCEPT !.r.gameState.hints =
                                                 MapSet(@, s, Append(MapGet(@, s, <<>>), cleanHint)),
                                              !.objs[<<s, players[s]>>].hint = cleanHint,
                                              !.r.gameState.currentTurnIndex = @ + 1]
                             c2 == startHintTurn(clearRoomTimer(c1))
                         IN  Commit(Put(w, broadcastGameState(c2)))

SubmitVote(s, targetId) ==
    /\ s \in conn
    /\ LET w == World
           Mine(r) == InRoom(r, s)
       IN  /\ SomeRoom(rooms, Mine)
           /\ LET room == FirstRoom(rooms, Mine)
                  result == handleVote(room, objs, [type |-> "SUBMIT_VOTE", playerId |-> s, targetId |-> targetId])
              IN  IF result.success
                  THEN LET c0 == [Ctx(w, room.id) EXCEPT !.r.gameState.votes = result.nextVotes]
                           c1 == IF players[s] >= 0 THEN [c0 EXCEPT !.objs[<<s, players[s]>>].hasVoted = TRUE] ELSE c0
                           c2 == EmitRoomUpdate(broadcastGameState(c1))
                           allVoted == \A i \in 1..Len(c2.r.players) :
                                          c2.objs[c2.r.players[i]].isEliminated
                                          \/ Sid(c2.r.players[i]) \in DOMAIN c2.r.gameState.votes
                       IN  Commit(Put(w, IF allVoted THEN resolveVotes(clearRoomTimer(c2)) ELSE c2))
                  ELSE Reject(w, s, result.error)

\* play_again, had it left the eliminated flags as they were
PlayAgainKeepingEliminated(s) ==
    /\ s \in conn
    /\ players[s] >= 0
    /\ LET w == World
           Mine(r) == r.ownerId = s /\ r.status = "ENDED"
       IN  /\ SomeRoom(rooms, Mine)
           /\ LET room == FirstRoom(rooms, Mine)
                  c0 == [Ctx(w, room.id) EXCEPT !.r.status = "LOBBY", !.r.gameState = NoGame]
                  c1 == [c0 EXCEPT !.objs = [o \in ObjIds |->
                            IF \E i \in 1..Len(room.players) : room.players[i] = o
                            THEN [c0.objs[o] EXCEPT !.role = "NONE", 
                                                    !.hint = NoWord, !.hasVoted = FALSE]
                            ELSE c0.objs[o]]]
                  c2 == EmitRoomUpdate(clearRoomTimer(c1))
              IN  Commit(Put(w, Emit(c2, "game_state", c2.chan[room.id], NoGame)))

PlayAgain(s) ==
    /\ s \in conn
    /\ players[s] >= 0
    /\ LET w == World
           Mine(r) == r.ownerId = s /\ r.status = "ENDED"
       IN  /\ SomeRoom(rooms, Mine)
           /\ LET room == FirstRoom(rooms, Mine)
                  c0 == [Ctx(w, room.id) EXCEPT !.r.status = "LOBBY", !.r.gameState = NoGame]
                  c1 == [c0 EXCEPT !.objs = [o \in ObjIds |->
                            IF \E i \in 1..Len(room.players) : room.players[i] = o
                            THEN [c0.objs[o] EXCEPT !.role = "NONE", !.isEliminated = FALSE,
                                                    !.hint = NoWord, !.hasVoted = FALSE]
                            ELSE c0.objs[o]]]
                  c2 == EmitRoomUpdate(clearRoomTimer(c1))
              IN  Commit(Put(w, Emit(c2, "game_state", c2.chan[room.id], NoGame)))

\* the body of accept_room_invite's "leave current room first" loop for one room
\* the invite's leave loop, had it not handed the room to the first remaining player
InviteLeaveInKeepingOwner(w, roomId, s) ==
    LET room == GetRoom(w.rooms, roomId)
    IN  IF ~InRoom(room, s) THEN w
        ELSE LET w0 == [w EXCEPT !.chan[roomId] = @ \ {s}]
                 c0 == [Ctx(w0, roomId) EXCEPT !.r.players = SeqRemoveAt(@, PlayerIndex(room, s))]
                 w1 == Put(w0, EmitRoomUpdate(c0))
             IN  IF Len(c0.r.players) = 0 THEN DeleteRoom(w1, roomId) ELSE w1

InviteLeaveIn(w, roomId, s) ==
    LET room == GetRoom(w.rooms, roomId)
    IN  IF ~InRoom(room, s) THEN w
        ELSE LET w0 == [w EXCEPT !.chan[roomId] = @ \ {s}]
                 c0 == [Ctx(w0, roomId) EXCEPT !.r.players = SeqRemoveAt(@, PlayerIndex(room, s))]
                 c1 == IF Len(c0.r.players) > 0 /\ c0.r.ownerId = s
                       THEN [c0 EXCEPT !.r.ownerId = Sid(c0.r.players[1])] ELSE c0
                 w1 == Put(w0, EmitRoomUpdate(c1))
             IN  IF Len(c0.r.players) = 0 THEN DeleteRoom(w1, roomId) ELSE w1

RECURSIVE InviteLeave(_, _, _)
InviteLeave(w, ids, s) ==
    IF ids = <<>> THEN w
    ELSE InviteLeave(IF HasRoom(w.rooms, Head(ids)) THEN InviteLeaveIn(w, Head(ids), s) ELSE w, Tail(ids), s)

\* accept_room_invite, for an invite that respondToInvite resolves to roomId
AcceptRoomInvite(s, roomId) ==
    /\ s \in conn
    /\ players[s] >= 0
    /\ objs[<<s, players[s]>>].userId # NoUser
    /\ HasRoom(rooms, roomId)
    /\ LET room == GetRoom(rooms, roomId)
       IN  /\ room.status = "LOBBY"
           /\ Len(room.players) < room.maxPlayers
           /\ LET w1 == InviteLeave(World, RoomIdsInOrder(rooms), s)
                  \* the Room object found before the loop is pushed to even if the loop deleted it
                  gone == ~HasRoom(w1.rooms, roomId)
                  target == IF gone THEN [room EXCEPT !.players = <<>>] ELSE GetRoom(w1.rooms, roomId)
                  joined == [target EXCEPT !.players = Append(@, <<s, players[s]>>)]
                  w2 == [w1 EXCEPT !.chan[roomId] = @ \cup {s}]
                  w3 == IF gone THEN w2 ELSE [w2 EXCEPT !.rooms[RoomIndex(w2.rooms, roomId)] = joined]
                  data == sanitizeRoomForBroadcast(joined, w3.objs)
              IN  Commit([w3 EXCEPT !.out = @ \cup {[ev |-> "room_update", to |-> w3.chan[roomId], data |-> data],
                                                    [ev |-> "room_update", to |-> {s}, data |-> data]}])

\* onComplete, had an expired hint turn been started again for the same speaker
OnCompleteRetryTurn(c, timer) ==
    CASE timer.kind = "ROLE_REVEAL" -> transitionToPhase(c, "HINT_ROUND")
      [] timer.kind = "DISCUSSION" -> transitionToPhase(c, "VOTING")
      [] timer.kind = "VOTING" -> resolveVotes(c)
      [] timer.kind = "VOTE_RESULT" -> checkGameEnd(c)
      [] timer.kind = "HINT_SHOW" -> HintRoundDone(c)
      [] timer.kind = "HINT_TURN" -> startHintTurn(c)

\* what the interval's onComplete does, by the phase timer it was started as
OnComplete(c, timer) ==
    CASE timer.kind = "ROLE_REVEAL" -> transitionToPhase(c, "HINT_ROUND")
      [] timer.kind = "DISCUSSION" -> transitionToPhase(c, "VOTING")
      [] timer.kind = "VOTING" -> resolveVotes(c)
      [] timer.kind = "VOTE_RESULT" -> checkGameEnd(c)
      [] timer.kind = "HINT_SHOW" -> HintRoundDone(c)
      [] timer.kind = "HINT_TURN" ->
            LET gs == c.r.gameState
                idx == gs.currentTurnIndex
                \* activePlayers is the list captured when the turn timer was started
                currentPlayerId == IF idx + 1 \in 1..Len(timer.active) THEN timer.active[idx + 1] ELSE NoWord
                hints1 == IF currentPlayerId \in DOMAIN gs.hints THEN gs.hints
                          ELSE MapSet(gs.hints, currentPlayerId, <<>>)
                hints2 == IF Len(hints1[currentPlayerId]) < gs.roundNumber
                          THEN [hints1 EXCEPT ![currentPlayerId] = Append(@, "(Timed out)")]
                          ELSE hints1
            IN  startHintTurn([c EXCEPT !.r.gameState.hints = hints2,
                                        !.r.gameState.currentTurnIndex = idx + 1])

\* rounds played in one game (roundNumber grows with every undecided vote)
MaxRound == 2

\* one firing of the interval registered under roomId
Tick(roomId) ==
    /\ timers[roomId].kind # "NONE"
    /\ LET w == World
           timer == timers[roomId]
           c0 == IF timer.orphan THEN CtxOrphan(w, roomId) ELSE Ctx(w, roomId)
           timeLeft == timer.timeLeft - 1
           c1 == broadcastGameState(
                   IF timer.kind = "HINT_TURN" THEN [c0 EXCEPT !.r.gameState.turnTimeLeft = @ - 1]
                   ELSE [c0 EXCEPT !.r.gameState.phaseTimeLeft = @ - 1])
           c2 == IF timeLeft <= 0 THEN OnComplete(clearRoomTimer(c1), timer)
                 ELSE [c1 EXCEPT !.timers[roomId].timeLeft = timeLeft]
       IN  /\ HasGame(c2.r) => c2.r.gameState.roundNumber <= MaxRound
           /\ Commit(Put(w, c2))

\* the create_room payloads explored
RoomConfigs == {[password |-> NoWord, gameMode |-> "CLASSIC"], [password |-> "pw", gameMode |-> "BLIND"]}

\* the sockets in their order of arrival
Arrival == <<"s1", "s2", "s3", "s4">>

\* room A after the first n sockets joined the lobby, the first created the room with
\* cfg, the others joined it and the first sent start_game, with the ROLE_REVEAL timer
\* start_game asks for registered
InitPlaying(n, cfg, draws, imposterDraw, firstDraw, sortDraw) ==
    LET ids == SubSeq(Arrival, 1, n)
        in == Range(ids)
        room == [id |-> "A", name |-> "room", password |-> cfg.password,
                 players |-> [i \in 1..n |-> <<ids[i], 0>>], maxPlayers |-> MAX_PLAYERS,
                 ownerId |-> ids[1], status |-> "PLAYING", gameMode |-> cfg.gameMode, gameState |-> NoGame]
        w0 == [InitEmpty EXCEPT
                 !.players = [s \in Sessions |-> IF s \in in THEN 0 ELSE -1],
                 !.rooms = <<room>>,
                 !.chan = [id \in RoomIds |-> IF id = "A" THEN in ELSE {}],
                 !.userSockets = [u \in {UserOf(s) : s \in in} \ {NoUser} |-> {s \in in : UserOf(s) = u}],
                 !.buckets = [k \in BucketKeys |->
                                 IF k[1] = "join_game" /\ k[2] \in in THEN 1
                                 ELSE IF k = <<"create_room", UserOf(ids[1])>> THEN 1 ELSE 0],
                 !.nextGameId = 2]
        imposterId == ids[FloorRand(imposterDraw, n) + 1]
        turnOrder == selectTurnOrder(ids, imposterId, firstDraw, sortDraw)
        c1 == initializeGame(Ctx(w0, "A"), draws, imposterDraw, turnOrder, 1)
    IN  Put(w0, startPhaseTimer(c1, ROLE_REVEAL_TIME, "ROLE_REVEAL", <<>>))

\* the server after construction, or a three-player game just started in either mode
Init ==
    \/ InitServer(InitEmpty)
    \/ \E cfg \in RoomConfigs, draws \in RandStreams :
          InitServer(InitPlaying(MIN_PLAYERS, cfg, draws, 2, 0, 2))

\* a four-player game just started
InitGame ==
    \E draws \in RandStreams :
       InitServer(InitPlaying(Len(Arrival), [password |-> NoWord, gameMode |-> "CLASSIC"], draws, 2, 0, 2))

\* the requests explored, per event: who sends it, with which payload
CreateInputs == ({"s1"} \X {"A"} \X RoomConfigs)
                \cup ({"s4"} \X {"B"} \X {[password |-> NoWord, gameMode |-> "CLASSIC"]})
JoinInputs == {<<"s2", "A", "pw">>, <<"s3", "A", "pw">>, <<"s2", "A", NoWord>>}
InviteInputs == {<<"s2", "B">>}
Leavers == {"s3"}
Starters == {"s1"}
VoteInputs == {<<"s1", "s3">>, <<"s2", "s3">>, <<"s3", "s1">>, <<"s2", "s2">>}

Next ==
    \/ \E s \in Sessions : JoinGame(s)
    \/ \E i \in CreateInputs : CreateRoom(i[1], i[2], i[3].password, i[3].gameMode)
    \/ \E i \in JoinInputs : JoinRoom(i[1], i[2], i[3])
    \/ \E s \in Sessions : Disconnect(s)
    \/ \E s \in Leavers : LeaveRoom(s)
    \/ \E s \in Starters : StartGame(s)
    \/ \E s \in Sessions : SubmitHint(s)
    \/ \E i \in VoteInputs : SubmitVote(i[1], i[2])
    \/ \E s \in Sessions : PlayAgain(s)
    \/ \E i \in InviteInputs : AcceptRoomInvite(i[1], i[2])
    \/ \E roomId \in RoomIds : Tick(roomId)

Spec == Init /\ [][Next]_vars

\* the requests of a four-player game in progress
GameLeavers == {"s2", "s3"}
GameVoteInputs == {<<"s1", "s4">>, <<"s2", "s4">>, <<"s3", "s4">>, <<"s4", "s1">>, <<"s2", "s2">>}

NextGame ==
    \/ \E s \in Sessions : Disconnect(s)
    \/ \E s \in GameLeavers : LeaveRoom(s)
    \/ \E s \in Sessions : SubmitHint(s)
    \/ \E i \in GameVoteInputs : SubmitVote(i[1], i[2])
    \/ \E s \in Sessions : PlayAgain(s)
    \/ \E roomId \in RoomIds : Tick(roomId)

SpecGame == InitGame /\ [][NextGame]_vars

\* the lobby: every socket has sent join_game once; rooms are created, joined and left
InitJoined ==
    [InitEmpty EXCEPT !.players = [s \in Sessions |-> 0],
                      !.userSockets = [u \in {UserOf(s) : s \in Sessions} \ {NoUser} |->
                                          {s \in Sessions : UserOf(s) = u}],
                      !.buckets = [k \in BucketKeys |->
                                      IF k[1] = "join_game" /\ k[2] \in Sessions THEN 1 ELSE 0]]

InitLobby == InitServer(InitJoined)

LobbyCreateInputs ==
    ({"s1"} \X {"A"} \X RoomConfigs) \cup ({"s4"} \X {"B"} \X {[password |-> NoWord, gameMode |-> "CLASSIC"]})
LobbyJoinInputs ==
    {<<"s2", "A", NoWord>>, <<"s2", "A", "pw">>, <<"s3", "A", "pw">>, <<"s4", "A", "pw">>,
     <<"s2", "B", NoWord>>, <<"s1", "B", NoWord>>}
LobbyInviteInputs == {<<"s1", "B">>, <<"s2", "B">>}
LobbyLeavers == {"s1", "s2"}

NextLobby ==
    \/ \E i \in LobbyCreateInputs : CreateRoom(i[1], i[2], i[3].password, i[3].gameMode)
    \/ \E i \in LobbyJoinInputs : JoinRoom(i[1], i[2], i[3])
    \/ \E s \in Sessions : Disconnect(s)
    \/ \E s \in LobbyLeavers : LeaveRoom(s)
    \/ \E s \in Starters : StartGame(s)
    \/ \E i \in LobbyInviteInputs : AcceptRoomInvite(i[1], i[2])

SpecLobby == InitLobby /\ [][NextLobby]_vars

(***************************************************************************)
(* Room ids: uuidv4().substring(0, 6) may come out as any id, used or not  *)
(***************************************************************************)
CreateAnyInputs == {"s1", "s2", "s4"} \X RoomIds \X {[password |-> NoWord, gameMode |-> "CLASSIC"]}

NextCreate ==
    \/ \E i \in CreateAnyInputs : CreateRoom(i[1], i[2], i[3].password, i[3].gameMode)
    \/ \E i \in LobbyJoinInputs : JoinRoom(i[1], i[2], i[3])
    \/ \E s \in Starters : StartGame(s)
    \/ \E s \in Sessions : Disconnect(s)

SpecCreate == InitLobby /\ [][NextCreate]_vars

(***************************************************************************)
(* A three-player game whose players all stay                              *)
(***************************************************************************)
\* the votes of three players: s1 and s3 vote for s2, s2 votes for s1; or each for the next
TrioVoteInputs == {<<"s1", "s2">>, <<"s2", "s1">>, <<"s3", "s2">>, <<"s2", "s3">>, <<"s3", "s1">>}

\* a three-player game just started, with any of the three as the imposter
InitTrio ==
    \E imposterDraw \in RandNums, draws \in RandStreams :
       InitServer(InitPlaying(MIN_PLAYERS, [password |-> NoWord, gameMode |-> "CLASSIC"], draws, imposterDraw, 0, 2))

NextTrio ==
    \/ \E s \in Sessions : SubmitHint(s)
    \/ \E i \in TrioVoteInputs : SubmitVote(i[1], i[2])
    \/ \E roomId \in RoomIds : Tick(roomId)

SpecTrio == InitTrio /\ [][NextTrio]_vars

(***************************************************************************)
(* A four-player game whose players may leave by leave_room                *)
(***************************************************************************)
\* votes for a player who may leave, and one for a player who stays
LeaverVoteInputs == {<<"s1", "s3">>, <<"s4", "s3">>, <<"s2", "s1">>}

NextLeave ==
    \/ \E s \in Sessions : SubmitHint(s)
    \/ \E i \in LeaverVoteInputs : SubmitVote(i[1], i[2])
    \/ \E s \in GameLeavers : LeaveRoom(s)
    \/ \E roomId \in RoomIds : Tick(roomId)

SpecLeave == InitGame /\ [][NextLeave]_vars

(***************************************************************************)
(* A four-player game whose players move to another room by invitation     *)
(***************************************************************************)
\* s4 opens room B; the players with an account accept invites to it; the guest leaves
MoveCreateInputs == {<<"s4", "B", [password |-> NoWord, gameMode |-> "CLASSIC"]>>}
MoveInviteInputs == {<<"s1", "B">>, <<"s2", "B">>, <<"s4", "B">>}
MoveLeavers == {"s3"}

NextMove ==
    \/ \E i \in MoveCreateInputs : CreateRoom(i[1], i[2], i[3].password, i[3].gameMode)
    \/ \E i \in MoveInviteInputs : AcceptRoomInvite(i[1], i[2])
    \/ \E s \in MoveLeavers : LeaveRoom(s)
    \/ \E roomId \in RoomIds : Tick(roomId)

SpecMove == InitGame /\ [][NextMove]_vars

(***************************************************************************)
(* A four-player game during which a player creates a room, under any id   *)
(***************************************************************************)
ReuseCreateInputs == {"s4"} \X RoomIds \X {[password |-> NoWord, gameMode |-> "CLASSIC"]}

NextReuse ==
    \/ \E i \in ReuseCreateInputs : CreateRoom(i[1], i[2], i[3].password, i[3].gameMode)
    \/ \E s \in Sessions : SubmitHint(s)
    \/ \E s \in GameLeavers : LeaveRoom(s)
    \/ \E roomId \in RoomIds : Tick(roomId)

SpecReuse == InitGame /\ [][NextReuse]_vars

(***************************************************************************)
(* A four-player game whose host may send start_game again                 *)
(***************************************************************************)
\* games initialised when the host restarts once
MaxRestartGames == 2

\* a four-player game just started; the next game drawn is the second
InitRestart ==
    \E draws \in RandStreams :
       InitServer([InitPlaying(Len(Arrival), [password |-> NoWord, gameMode |-> "CLASSIC"], draws, 2, 0, 2)
                      EXCEPT !.stats = [g \in 1..MaxRestartGames |-> 0]])

NextRestart ==
    \/ \E s \in Starters : StartGameUpTo(s, MaxRestartGames)
    \/ \E s \in Sessions : SubmitHint(s)
    \/ \E i \in TrioVoteInputs : SubmitVote(i[1], i[2])
    \/ \E s \in Sessions : PlayAgain(s)
    \/ \E roomId \in RoomIds : Tick(roomId)

SpecRestart == InitRestart /\ [][NextRestart]_vars

(***************************************************************************)
(* A game nobody plays: the clients send nothing, the timers tick          *)
(***************************************************************************)
\* a game of three or four players just started, in either mode and any turn order
InitTicks ==
    \E n \in {MIN_PLAYERS, Len(Arrival)}, cfg \in RoomConfigs, draws \in RandStreams,
       imposterDraw \in RandNums, firstDraw \in RandNums, sortDraw \in RandNums :
          InitServer(InitPlaying(n, cfg, draws, imposterDraw, firstDraw, sortDraw))

NextTicks == \E roomId \in RoomIds : Tick(roomId)

\* the interval of room id is registered and its next firing stays within MaxRound: the
\* one firing that leaves it is the end of a VOTE_RESULT after which the game goes on
TickReady(id) ==
    /\ timers[id].kind # "NONE"
    /\ LET room == IF timers[id].orphan THEN orphans[id] ELSE GetRoom(rooms, id)
       IN  ~ /\ timers[id].kind = "VOTE_RESULT" /\ timers[id].timeLeft <= 1
             /\ HasGame(room) /\ room.gameState.roundNumber >= MaxRound
             /\ ~\E j \in 1..Len(room.players) :
                    /\ Sid(room.players[j]) = room.gameState.imposterId
                    /\ objs[room.players[j]].isEliminated
             /\ Cardinality({j \in 1..Len(room.players) :
                    objs[room.players[j]].role = "CITIZEN" /\ ~objs[room.players[j]].isEliminated}) > 1

\* setInterval keeps firing a registered interval: weak fairness of the ticks,
\* WF_vars(NextTicks), with ENABLED <<NextTicks>>_vars written out as TickReady
TicksFair == <>[](\E id \in RoomIds : TickReady(id)) => []<><<NextTicks>>_vars

SpecTicks == InitTicks /\ [][NextTicks]_vars /\ TicksFair

(***************************************************************************)
(* Presence: sessions of befriended users come and go                      *)
(***************************************************************************)
\* notifyFriends after its await: getFriends has answered the call waiting at position i
\* (the queries are independent and answer in any order) and every socket that
\* this.userSockets now holds for a friend is sent the event
ResolveNotifyFriends(i) ==
    /\ i \in 1..Len(notices)
    /\ LET w == World
           n == notices[i]
           friendSockets == UNION {MapGet(userSockets, f, {}) : f \in friends[n.userId]}
       IN  Commit([w EXCEPT !.notices = SeqRemoveAt(@, i),
                            !.out = IF friendSockets = {} THEN {}
                                    ELSE {[ev |-> n.event, to |-> friendSockets, data |-> [userId |-> n.userId]]}])

\* every signed-in user is the friend of every other
AllFriends == [u \in Users |-> Users \ {u}]
InitPresence == InitServer([InitEmpty EXCEPT !.friends = AllFriends])

NextPresence ==
    \/ \E s \in Sessions : JoinGame(s)
    \/ \E s \in Sessions : Disconnect(s)
    \/ \E i \in 1..Len(notices) : ResolveNotifyFriends(i)

SpecPresence == InitPresence /\ [][NextPresence]_vars

(***************************************************************************)
(* services/stats-service.ts: recordGameEnd against the stats tables       *)
(***************************************************************************)
\* recordGameEnd calls explored
MaxCalls == 3

\* result.players of the two games: g1 was played by u1 in two tabs and by u2, g2 by guests
StatsPlayers(g) ==
    IF g = "g1" THEN <<[odaUserID |-> "u1", role |-> "IMPOSTER"], [odaUserID |-> "u1", role |-> "CITIZEN"],
                       [odaUserID |-> "u2", role |-> "CITIZEN"]>>
    ELSE <<[odaUserID |-> NoUser, role |-> "IMPOSTER"], [odaUserID |-> NoUser, role |-> "CITIZEN"]>>

\* [...new Map(participants.map(p => [p.user_id, p])).values()]: per user id the last row,
\* in the order of the first occurrence of each id
LastRowOf(rows, u) == rows[CHOOSE i \in 1..Len(rows) : rows[i].user_id = u /\ \A j \in (i + 1)..Len(rows) : rows[j].user_id # u]
RECURSIVE DedupeByUser(_, _)
DedupeByUser(rows, i) ==
    IF i > Len(rows) THEN <<>>
    ELSE IF \E j \in 1..(i - 1) : rows[j].user_id = rows[i].user_id THEN DedupeByUser(rows, i + 1)
    ELSE <<LastRowOf(rows, rows[i].user_id)>> \o DedupeByUser(rows, i + 1)

\* the rows recordGameEnd builds for game_participants
uniqueParticipants(gameId, winner, ps) ==
    LET authenticated == SelectSeq(ps, LAMBDA p : p.odaUserID # NoUser)
        participants == [i \in 1..Len(authenticated) |->
                           [game_id |-> gameId, user_id |-> authenticated[i].odaUserID,
                            role |-> authenticated[i].role,
                            won |-> \/ (winner = "IMPOSTER" /\ authenticated[i].role = "IMPOSTER")
                                    \/ (winner = "CITIZENS" /\ authenticated[i].role = "CITIZEN")]]
    IN  DedupeByUser(participants, 1)

\* what the database may answer to an insert into game_results: the primary key rejects
\* an id the table holds with code 23505; any statement may fail for another reason
InsertAnswers(table, id) == IF id \in table THEN {"23505", "500"} ELSE {"ok", "500"}

UNCHANGED_GAME ==
    UNCHANGED <<conn, players, objs, rooms, timers, orphans, chan, userSockets, stats, nextGameId,
                buckets, outbox, friends, notices, fnCall, fnResult>>

\* recordGameEnd(result) up to its first await
StartRecordGameEnd(gameId) ==
    /\ Len(statsCalls) < MaxCalls
    /\ statsCalls' = Append(statsCalls, [gameId |-> gameId, winner |-> "CITIZENS", players |-> StatsPlayers(gameId),
                               at |-> "game_results", error |-> "none"])
    /\ UNCHANGED db
    /\ UNCHANGED_GAME

\* step 1 had it gone on to the participants whatever the answer to the insert
InsertGameResultIgnoringError(k) ==
    /\ k \in 1..Len(statsCalls)
    /\ statsCalls[k].at = "game_results"
    /\ \E answer \in InsertAnswers(db.game_results, statsCalls[k].gameId) :
          LET c == statsCalls[k]
              rows == uniqueParticipants(c.gameId, c.winner, c.players)
          IN  /\ db' = IF answer = "ok" THEN [db EXCEPT !.game_results = @ \cup {c.gameId}] ELSE db
              /\ statsCalls' = [statsCalls EXCEPT ![k].at = IF rows = <<>> THEN "returned" ELSE "game_participants",
                                         ![k].error = IF answer = "ok" THEN @ ELSE answer]
    /\ UNCHANGED_GAME

\* step 1: the insert into game_results is answered; on an error the call returns
InsertGameResult(k) ==
    /\ k \in 1..Len(statsCalls)
    /\ statsCalls[k].at = "game_results"
    /\ \E answer \in InsertAnswers(db.game_results, statsCalls[k].gameId) :
          LET c == statsCalls[k]
              rows == uniqueParticipants(c.gameId, c.winner, c.players)
          IN  IF answer # "ok"
              THEN /\ statsCalls' = [statsCalls EXCEPT ![k].at = "returned", ![k].error = answer]
                   /\ UNCHANGED db
              ELSE /\ db' = [db EXCEPT !.game_results = @ \cup {c.gameId}]
                   /\ statsCalls' = [statsCalls EXCEPT ![k].at = IF rows = <<>> THEN "returned" ELSE "game_participants"]
    /\ UNCHANGED_GAME

\* step 2: the insert into game_participants is answered; an error is logged; the two
\* rpc calls that follow are sent without being awaited and the call returns
InsertParticipants(k) ==
    /\ k \in 1..Len(statsCalls)
    /\ statsCalls[k].at = "game_participants"
    /\ \E answer \in {"ok", "500"} :
          LET c == statsCalls[k]
              rows == uniqueParticipants(c.gameId, c.winner, c.players)
          IN  /\ db' = [db EXCEPT !.game_participants[c.gameId] = IF answer = "ok" THEN @ \o rows ELSE @,
                                  !.daily_stats = @ + 1]
              /\ statsCalls' = [statsCalls EXCEPT ![k].at = "returned", ![k].error = IF answer = "ok" THEN @ ELSE answer]
    /\ UNCHANGED_GAME

InitStats == InitServer(InitEmpty)

NextStats ==
    \/ \E g \in StatsGames : StartRecordGameEnd(g)
    \/ \E k \in 1..Len(statsCalls) : InsertGameResult(k)
    \/ \E k \in 1..Len(statsCalls) : InsertParticipants(k)

SpecStats == InitStats /\ [][NextStats]_vars

(***************************************************************************)
(* The engine's pure functions, called on their own                        *)
(***************************************************************************)
UNCHANGED_SERVER ==
    UNCHANGED <<conn, players, objs, rooms, timers, orphans, chan, userSockets, stats, nextGameId,
                buckets, outbox, friends, notices, db, statsCalls>>

\* a GameState in phase from; the fields a transition may touch take several values
GameStateIn(from, votes, turnIndex, timeLeft) ==
    [gameId |-> 1, phase |-> from, word |-> "Apple", imposterId |-> "s2",
     currentTurnIndex |-> turnIndex, turnOrder |-> <<"s1", "s2", "s3">>,
     turnTimeLeft |-> timeLeft, phaseTimeLeft |-> timeLeft, roundNumber |-> 1,
     votes |-> votes, hints |-> [x \in {"s1"} |-> <<"clue">>],
     eliminatedPlayerId |-> NoOne, winner |-> "NONE", gameMode |-> "CLASSIC", imposterWord |-> NoWord]

\* every votes mapping of up to five voters over three targets
VoteMaps == UNION {[V -> {"s1", "s2", "s3"}] : V \in SUBSET {"s1", "s2", "s3", "s4", "s5"}}

CountCalls == {[fn |-> "calculateEliminated", votes |-> votes] : votes \in VoteMaps}

CallCalculateEliminated ==
    /\ fnCall.fn = "calculateEliminated"
    /\ fnResult' = [value |-> calculateEliminated(fnCall.votes)]
    /\ UNCHANGED fnCall
    /\ UNCHANGED_SERVER

TransitionCalls ==
    {[fn |-> "applyPhaseTransition", state |-> GameStateIn(from, votes, ti, tl), targetPhase |-> to] :
        from \in Phases, to \in Phases,
        votes \in {EmptyMap, [x \in {"s1"} |-> "s2"]}, ti \in {0, 2}, tl \in {0, 2}}

CallApplyPhaseTransition ==
    /\ fnCall.fn = "applyPhaseTransition"
    /\ fnResult' = applyPhaseTransition(fnCall.state, fnCall.targetPhase)
    /\ UNCHANGED fnCall
    /\ UNCHANGED_SERVER

\* a room of s1, s2, s3 for the vote commands; s3 may be eliminated
VoteRoom(gameState) ==
    [id |-> "A", name |-> "room", password |-> NoWord,
     players |-> <<(<<"s1", 0>>), (<<"s2", 0>>), (<<"s3", 0>>)>>, maxPlayers |-> MAX_PLAYERS,
     ownerId |-> "s1", status |-> IF gameState = NoGame THEN "LOBBY" ELSE "PLAYING",
     gameMode |-> "CLASSIC", gameState |-> gameState]

VoteObjs(s3Eliminated) ==
    [o \in ObjIds |-> [NewPlayer(Sid(o)) EXCEPT !.isEliminated = (Sid(o) = "s3" /\ s3Eliminated)]]

VoteCommands == {[type |-> "SUBMIT_VOTE", playerId |-> v, targetId |-> t] :
                    v \in {"s1", "s3"}, t \in {"s1", "s2", "s3", "s4"}}

VoteCalls ==
    {[fn |-> "handleVote", room |-> VoteRoom(gs), objs |-> VoteObjs(e), cmd |-> cmd] :
        gs \in {NoGame} \cup {GameStateIn(ph, votes, 0, 1) :
                                 ph \in {"VOTING", "DISCUSSION"},
                                 votes \in {EmptyMap, [x \in {"s1"} |-> "s2"], [x \in {"s1", "s2"} |-> "s3"]}},
        e \in BOOLEAN, cmd \in VoteCommands}

CallHandleVote ==
    /\ fnCall.fn = "handleVote"
    /\ fnResult' = [error |-> validateVote(fnCall.room, fnCall.objs, fnCall.cmd),
                    result |-> handleVote(fnCall.room, fnCall.objs, fnCall.cmd)]
    /\ UNCHANGED fnCall
    /\ UNCHANGED_SERVER

\* two votes of one voter, applied to a VOTING state one after the other
RevoteCalls ==
    {[fn |-> "applyVote", state |-> GameStateIn("VOTING", votes, 0, 1),
      first |-> [type |-> "SUBMIT_VOTE", playerId |-> v, targetId |-> t1],
      second |-> [type |-> "SUBMIT_VOTE", playerId |-> v, targetId |-> t2]] :
        votes \in {m \in VoteMaps : DOMAIN m \subseteq {"s1", "s2"}},
        v \in {"s1", "s3"}, t1 \in {"s1", "s2", "s3"}, t2 \in {"s1", "s2", "s3"}}

CallApplyVote ==
    /\ fnCall.fn = "applyVote"
    /\ LET afterFirst == applyVote(fnCall.state, fnCall.first)
       IN  fnResult' = [first |-> afterFirst,
                        both |-> applyVote([fnCall.state EXCEPT !.votes = afterFirst], fnCall.second),
                        second |-> applyVote(fnCall.state, fnCall.second)]
    /\ UNCHANGED fnCall
    /\ UNCHANGED_SERVER

\* rand as the draws it repeats for ever, each draw a multiple of 1/RandDen
RandCycles == UNION {[1..n -> 0..(RandDen - 1)] : n \in 1..3}
WordLists == {<<"Apple">>, <<"Apple", "Pear">>, <<"Apple", "Pear", "Plum">>}

SelectCalls ==
    {[fn |-> "selectWordsForMode", mode |-> mode, wordList |-> wl, draws |-> d] :
        mode \in {"CLASSIC", "BLIND"}, wl \in WordLists, d \in RandCycles}

CallSelectWordsForMode ==
    /\ fnCall.fn = "selectWordsForMode"
    /\ LET calls == selectWordsCalls(fnCall.mode, fnCall.wordList, fnCall.draws)
       IN  fnResult' = IF calls = 0
                       THEN [returned |-> FALSE]
                       ELSE [returned |-> TRUE, calls |-> calls,
                             value |-> selectWordsForMode(fnCall.mode, fnCall.wordList, fnCall.draws)]
    /\ UNCHANGED fnCall
    /\ UNCHANGED_SERVER

PureCalls == TransitionCalls \cup CountCalls \cup VoteCalls \cup RevoteCalls \cup SelectCalls

InitPure == InitFrom(InitEmpty) /\ fnCall \in PureCalls /\ fnResult = NoCall /\ db = EmptyDb /\ statsCalls = <<>>

NextPure ==
    \/ CallApplyPhaseTransition
    \/ CallCalculateEliminated
    \/ CallHandleVote
    \/ CallApplyVote
    \/ CallSelectWordsForMode

SpecPure == InitPure /\ [][NextPure]_vars

(***************************************************************************)
(* Properties                                                              *)
(***************************************************************************)
\* every Room object alive: those in this.rooms and those a timer still drives
LiveRooms == Range(rooms) \cup {orphans[id] : id \in {x \in RoomIds : "id" \in DOMAIN orphans[x]}}
\* the games of the rooms socket r is a player of
GamesOf(r) == {room.gameState : room \in {x \in LiveRooms : HasGame(x) /\ InRoom(x, r)}}
\* the word socket r is entitled to in game gs
OwnWord(gs, r) ==
    IF r # gs.imposterId THEN gs.word
    ELSE IF gs.gameMode = "BLIND" THEN gs.imposterWord ELSE NullWord

\* a game_state message that carries a snapshot (play_again sends null)
IsSnapshot(m) == m.ev = "game_state" /\ "phase" \in DOMAIN m.data

RoomUpdateLeaks(m) ==
    /\ m.ev = "room_update"
    /\ "gameState" \in DOMAIN m.data
    /\ "phase" \in DOMAIN m.data.gameState
    /\ m.data.gameState.phase # "GAME_OVER"
    /\ \E r \in m.to :
          \/ \E i \in DOMAIN m.data.players :
                m.data.players[i].id # r /\ m.data.players[i].role \in {"IMPOSTER", "CITIZEN"}
          \/ "imposterId" \in DOMAIN m.data.gameState
          \/ m.data.gameState.word # OwnWord(m.data.gameState, r)

GameStateLeaks(m) ==
    /\ IsSnapshot(m)
    /\ m.data.phase # "GAME_OVER"
    /\ \/ m.data.imposterId # NoOne
       \/ \E r \in m.to : \A gs \in GamesOf(r) : m.data.word # OwnWord(gs, r)

\* C1: no room_update and no game_state of a game that is not over shows a recipient
\* another player's role, the imposter's id, or a word the recipient is not entitled to
C1_NoLeak == \A m \in outbox : ~RoomUpdateLeaks(m) /\ ~GameStateLeaks(m)

\* C2: in CLASSIC the imposter's game_state has word null and isImposter true and every
\* other recipient's has the citizens' word and isImposter false; in BLIND nobody's word
\* is null, the imposter gets imposterWord, the others the citizens' word, and
\* isImposter is false for all
C2_WordPerMode ==
    \A m \in outbox : IsSnapshot(m) =>
        \A r \in m.to : \E gs \in GamesOf(r) :
            LET imp == r = gs.imposterId
            IN  /\ m.data.gameMode = gs.gameMode
                /\ IF gs.gameMode = "CLASSIC"
                   THEN /\ imp => m.data.word = NullWord /\ m.data.isImposter
                        /\ ~imp => m.data.word = gs.word /\ ~m.data.isImposter
                   ELSE /\ m.data.word # NullWord
                        /\ m.data.word = (IF imp THEN gs.imposterWord ELSE gs.word)
                        /\ ~m.data.isImposter

\* a BLIND imposter and a BLIND citizen are sent their different words in one broadcast
C2_Witness ==
    \E m1 \in outbox, m2 \in outbox :
        /\ IsSnapshot(m1) /\ IsSnapshot(m2)
        /\ m1.data.gameMode = "BLIND"
        /\ \E r \in m1.to : \E gs \in GamesOf(r) :
              r = gs.imposterId /\ m1.data.word = gs.imposterWord /\ m2.data.word = gs.word
                 /\ gs.word # gs.imposterWord /\ ~m1.data.isImposter

\* C3: a game_state carries votes only in VOTE_RESULT and GAME_OVER, and an imposterId
\* only in GAME_OVER
C3_VotesAndImposterHidden ==
    \A m \in outbox : IsSnapshot(m) =>
        /\ DOMAIN m.data.votes # {} => m.data.phase \in {"VOTE_RESULT", "GAME_OVER"}
        /\ m.data.imposterId # NoOne => m.data.phase = "GAME_OVER"

\* a game_state sent during VOTING hides the votes already cast
C3_Witness ==
    \E m \in outbox :
        /\ IsSnapshot(m) /\ m.data.phase = "VOTING" /\ DOMAIN m.data.votes = {}
        /\ \E r \in m.to : \E gs \in GamesOf(r) : DOMAIN gs.votes # {}

\* C4: no room_update has a password field, and none of its players a userId
C4_RoomUpdateSanitized ==
    \A m \in outbox : (m.ev = "room_update" /\ "players" \in DOMAIN m.data) =>
        /\ "password" \notin DOMAIN m.data
        /\ \A i \in DOMAIN m.data.players : "userId" \notin DOMAIN m.data.players[i]

\* a room_update of a password-protected room with a signed-in player is delivered
C4_Witness ==
    \E m \in outbox :
        /\ m.ev = "room_update" /\ "players" \in DOMAIN m.data /\ m.to # {}
        /\ \E room \in LiveRooms :
              /\ room.id = m.data.id /\ room.password = "pw"
              /\ \E i \in 1..Len(room.players) : objs[room.players[i]].userId # NoUser

\* C5: once a session has disconnected, no game of any room names it in turnOrder,
\* as a voter or a vote target, or as a key of hints
C5_NoGhostReference ==
    \A i \in 1..Len(rooms) : HasGame(rooms[i]) =>
        \A s \in Sessions \ conn :
            /\ s \notin Range(rooms[i].gameState.turnOrder)
            /\ s \notin DOMAIN rooms[i].gameState.votes
            /\ s \notin Range(rooms[i].gameState.votes)
            /\ s \notin DOMAIN rooms[i].gameState.hints

\* C8: every room has at most MAX_PLAYERS players, and every PLAYING room at least
\* MIN_PLAYERS
C8_PlayerCount ==
    \A i \in 1..Len(rooms) :
        /\ Len(rooms[i].players) <= MAX_PLAYERS
        /\ rooms[i].status = "PLAYING" => Len(rooms[i].players) >= MIN_PLAYERS

AfterDisconnect(s) ==
    leaveRoom([World EXCEPT !.conn = @ \ {s}, !.chan = [id \in RoomIds |-> chan[id] \ {s}]],
              RoomIdsInOrder(rooms), s)

InPlayingRoom(s) == \E i \in 1..Len(rooms) : rooms[i].status = "PLAYING" /\ InRoom(rooms[i], s)

\* C6: when a member of a PLAYING room sends leave_room, the rooms and their games end
\* up as they would had the member disconnected instead
C6_LeaveEqualsDisconnect ==
    [][\A s \in Sessions : (InPlayingRoom(s) /\ LeaveRoom(s)) => rooms' = AfterDisconnect(s).rooms]_vars

\* room i is PLAYING, not over, s is its imposter and not its only player
ImposterOf(s, i) ==
    /\ rooms[i].status = "PLAYING"
    /\ HasGame(rooms[i])
    /\ rooms[i].gameState.phase # "GAME_OVER"
    /\ rooms[i].gameState.imposterId = s
    /\ InRoom(rooms[i], s)
    /\ Len(rooms[i].players) > 1

\* C7: when the imposter of a PLAYING room that is not over disconnects and somebody
\* remains, the room is ENDED in GAME_OVER with winner CITIZENS, has no timer, has lost
\* the imposter from its players and votes, and keeps every other player
C7_ImposterDisconnect ==
    [][\A s \in Sessions : \A i \in 1..Len(rooms) : (ImposterOf(s, i) /\ Disconnect(s)) =>
          /\ HasRoom(rooms', rooms[i].id)
          /\ LET r2 == GetRoom(rooms', rooms[i].id)
             IN  /\ HasGame(r2)
                 /\ r2.gameState.winner = "CITIZENS"
                 /\ r2.gameState.phase = "GAME_OVER"
                 /\ r2.status = "ENDED"
                 /\ timers'[rooms[i].id] = NoTimer
                 /\ ~InRoom(r2, s)
                 /\ s \notin DOMAIN r2.gameState.votes
                 /\ s \notin Range(r2.gameState.votes)
                 /\ \A j \in 1..Len(rooms[i].players) :
                       Sid(rooms[i].players[j]) # s => InRoom(r2, Sid(rooms[i].players[j]))]_vars

\* a room ended by its imposter's disconnect during VOTING, a vote for the imposter
\* having been cast: the others are still in it and the vote is gone
C7_Witness ==
    \E i \in 1..Len(rooms) :
        /\ HasGame(rooms[i])
        /\ rooms[i].status = "ENDED"
        /\ rooms[i].gameState.phase = "GAME_OVER"
        /\ rooms[i].gameState.winner = "CITIZENS"
        /\ rooms[i].gameState.eliminatedPlayerId # rooms[i].gameState.imposterId
        /\ rooms[i].gameState.imposterId \notin conn
        /\ ~InRoom(rooms[i], rooms[i].gameState.imposterId)
        /\ Len(rooms[i].players) >= 2
        /\ timers[rooms[i].id] = NoTimer
        /\ \E p \in Sessions : objs[<<p, 0>>].hasVoted /\ InRoom(rooms[i], p)
        /\ \E m \in outbox : m.ev = "room_update" /\ "status" \in DOMAIN m.data /\ m.data.status = "ENDED"

\* C11: no session is in the player list of two rooms
C11_OneRoomPerSession ==
    \A s \in Sessions : \A i \in 1..Len(rooms) : \A j \in 1..Len(rooms) :
        (InRoom(rooms[i], s) /\ InRoom(rooms[j], s)) => i = j

\* every stored room has a player, and its owner is one of its players
OwnerIsMember == \A i \in 1..Len(rooms) : Len(rooms[i].players) >= 1 /\ InRoom(rooms[i], rooms[i].ownerId)

\* the owner s of room i has left it in this step and the room is still stored, non-empty
OwnerLeft(s, i) ==
    /\ rooms[i].ownerId = s
    /\ InRoom(rooms[i], s)
    /\ HasRoom(rooms', rooms[i].id)
    /\ ~InRoom(GetRoom(rooms', rooms[i].id), s)

\* C12: every stored room has at least one player and is owned by one of them, and when
\* the owner leaves a room that stays non-empty the first remaining player in join order
\* becomes the owner
C12_Ownership ==
    /\ []OwnerIsMember
    /\ [][\A s \in Sessions : \A i \in 1..Len(rooms) : OwnerLeft(s, i) =>
             GetRoom(rooms', rooms[i].id).ownerId =
                 Sid(Head(SelectSeq(rooms[i].players, LAMBDA o : Sid(o) # s)))]_vars

\* the owner has just left a room of three and the second to join now owns it
C12_Witness ==
    \E i \in 1..Len(rooms) :
        /\ rooms[i].id = "A"
        /\ ~InRoom(rooms[i], "s1")
        /\ Len(rooms[i].players) >= 2
        /\ rooms[i].ownerId = Sid(rooms[i].players[1])
        /\ \E m \in outbox : m.ev = "room_update" /\ "ownerId" \in DOMAIN m.data
                                /\ m.data.id = "A" /\ m.data.ownerId = rooms[i].ownerId

\* the legal phase graph
LegalEdges ==
    {<<"LOBBY", "ROLE_REVEAL">>, <<"ROLE_REVEAL", "HINT_ROUND">>, <<"HINT_ROUND", "DISCUSSION">>,
     <<"DISCUSSION", "VOTING">>, <<"VOTING", "VOTE_RESULT">>, <<"VOTE_RESULT", "HINT_ROUND">>,
     <<"VOTE_RESULT", "GAME_OVER">>, <<"GAME_OVER", "LOBBY">>}

Returned(fn) == fnCall.fn = fn /\ fnResult # NoCall

\* C13: applyPhaseTransition answers ok exactly on the edges of the legal phase graph, and
\* otherwise answers INVALID_TRANSITION with the state it was given
C13_TransitionLegality ==
    Returned("applyPhaseTransition") =>
        /\ fnResult.ok <=> <<fnCall.state.phase, fnCall.targetPhase>> \in LegalEdges
        /\ ~fnResult.ok => fnResult.error = "INVALID_TRANSITION" /\ fnResult.state = fnCall.state

\* the illegal call DISCUSSION -> GAME_OVER has returned
C13_Witness ==
    /\ Returned("applyPhaseTransition")
    /\ ~fnResult.ok
    /\ fnCall.state.phase = "DISCUSSION" /\ fnCall.targetPhase = "GAME_OVER"

\* the state a legal transition to targetPhase must return for input st
ExpectedAfter(st, targetPhase) ==
    [f \in DOMAIN st |->
        CASE f = "phase" -> targetPhase
          [] f = "phaseTimeLeft" -> getPhaseDuration(targetPhase)
          [] f = "votes" -> IF targetPhase = "VOTING" THEN EmptyMap ELSE st.votes
          [] f = "currentTurnIndex" -> IF targetPhase = "HINT_ROUND" THEN 0 ELSE st.currentTurnIndex
          [] f = "turnTimeLeft" -> IF targetPhase = "HINT_ROUND" THEN HINT_TURN_TIME ELSE st.turnTimeLeft
          [] OTHER -> st[f]]

\* C14: a legal transition returns the input with phase and phaseTimeLeft set, votes
\* emptied only for VOTING, the turn index and turn time reset only for HINT_ROUND, and
\* nothing else changed; the input is left as it was and a second call returns the same
C14_TransitionFrame ==
    /\ [](Returned("applyPhaseTransition") /\ fnResult.ok =>
             fnResult.state = ExpectedAfter(fnCall.state, fnCall.targetPhase))
    /\ [][CallApplyPhaseTransition =>
             /\ fnCall' = fnCall
             /\ fnResult # NoCall => fnResult' = fnResult]_vars

\* a transition to VOTING has emptied a non-empty votes map and kept turn index 2
C14_Witness ==
    /\ Returned("applyPhaseTransition")
    /\ fnResult.ok
    /\ fnCall.targetPhase = "VOTING"
    /\ DOMAIN fnCall.state.votes # {}
    /\ DOMAIN fnResult.state.votes = {}
    /\ fnResult.state.currentTurnIndex = 2

\* target t has strictly more votes than every other target
StrictLeader(votes, t) ==
    /\ t \in Range(votes)
    /\ \A u \in Range(votes) \ {t} : VoteCount(votes, t) > VoteCount(votes, u)

\* C15: calculateEliminated returns the target with strictly more votes than every other
\* target if there is one, and null otherwise
C15_StrictPlurality ==
    Returned("calculateEliminated") =>
        IF \E t \in Range(fnCall.votes) : StrictLeader(fnCall.votes, t)
        THEN StrictLeader(fnCall.votes, fnResult.value)
        ELSE fnResult.value = NoOne

\* two targets share the lead over a third, and the answer is null
C15_Witness ==
    /\ Returned("calculateEliminated")
    /\ VoteCount(fnCall.votes, "s1") = 2
    /\ VoteCount(fnCall.votes, "s2") = 2
    /\ VoteCount(fnCall.votes, "s3") = 1
    /\ fnResult.value = NoOne

\* the first rule of the fixed order that the command breaks ("OK": none, the source's null)
FirstBrokenRule(r, os, cmd) ==
    CASE ~HasGame(r) -> "GAME_NOT_STARTED"
      [] HasGame(r) /\ r.gameState.phase # "VOTING" -> "WRONG_PHASE"
      [] HasGame(r) /\ r.gameState.phase = "VOTING" /\ cmd.playerId = cmd.targetId -> "CANNOT_VOTE_SELF"
      [] HasGame(r) /\ r.gameState.phase = "VOTING" /\ cmd.playerId # cmd.targetId
            /\ (\A i \in 1..Len(r.players) : Sid(r.players[i]) # cmd.targetId
                                               \/ os[r.players[i]].isEliminated) -> "INVALID_TARGET"
      [] OTHER -> "OK"

\* C16: validateVote returns the first broken rule in the order GAME_NOT_STARTED,
\* WRONG_PHASE, CANNOT_VOTE_SELF, INVALID_TARGET, never ALREADY_VOTED, and on an error
\* handleVote returns no votes and leaves the room's votes alone
C16_ValidationOrder ==
    /\ [](Returned("handleVote") =>
             /\ fnResult.error = FirstBrokenRule(fnCall.room, fnCall.objs, fnCall.cmd)
             /\ fnResult.error # "ALREADY_VOTED"
             /\ fnResult.result.success <=> fnResult.error = "OK"
             /\ ~fnResult.result.success =>
                   /\ "nextVotes" \notin DOMAIN fnResult.result
                   /\ fnResult.result.error = fnResult.error)
    /\ [][CallHandleVote => fnCall'.room = fnCall.room]_vars

\* an eliminated player voting for itself is told CANNOT_VOTE_SELF, not INVALID_TARGET
C16_Witness ==
    /\ Returned("handleVote")
    /\ fnCall.cmd.playerId = "s3" /\ fnCall.cmd.targetId = "s3"
    /\ fnCall.objs[<<"s3", 0>>].isEliminated
    /\ fnResult.error = "CANNOT_VOTE_SELF"
    /\ ~fnResult.result.success

\* votes after equals votes before except that voter v now votes for t
OnlyEntryChanged(before, after, v, t) ==
    /\ DOMAIN after = DOMAIN before \cup {v}
    /\ after[v] = t
    /\ \A x \in DOMAIN before \ {v} : after[x] = before[x]

\* C17: a second vote of the same voter replaces the first, applyVote changes the voter's
\* entry only, and the votes mapping it was given stays as it was
C17_LastWriteWins ==
    /\ [](Returned("applyVote") =>
             /\ fnResult.both = fnResult.second
             /\ OnlyEntryChanged(fnCall.state.votes, fnResult.first,
                                 fnCall.first.playerId, fnCall.first.targetId)
             /\ OnlyEntryChanged(fnResult.first, fnResult.both,
                                 fnCall.second.playerId, fnCall.second.targetId))
    /\ [][CallApplyVote => fnCall'.state.votes = fnCall.state.votes]_vars

\* s1, who had voted s2, votes s3 and then s2 again while s2's own vote stays
C17_Witness ==
    /\ Returned("applyVote")
    /\ fnCall.state.votes = [x \in {"s1", "s2"} |-> IF x = "s1" THEN "s2" ELSE "s3"]
    /\ fnCall.first.playerId = "s1" /\ fnCall.first.targetId = "s3"
    /\ fnCall.second.targetId = "s2"
    /\ fnResult.first["s1"] = "s3"
    /\ fnResult.both["s1"] = "s2"
    /\ fnResult.both["s2"] = "s3"

\* the two words come from different places of the list
FromDifferentIndexes(wl, value) ==
    \E i \in 1..Len(wl), j \in 1..Len(wl) :
        i # j /\ value.citizenWord = wl[i] /\ value.imposterWord = wl[j]

\* rand yields, after its first draw, a draw that falls on another index
YieldsAnotherIndex(wl, draws) ==
    \E i \in 2..Len(draws) : FloorRand(draws[i], Len(wl)) # FloorRand(draws[1], Len(wl))

\* what the claim says of CLASSIC and of a one-word list
SelectEasyCases ==
    /\ (fnCall.mode = "BLIND" /\ Len(fnCall.wordList) = 1) =>
          /\ fnResult.returned
          /\ fnResult.value.citizenWord = fnCall.wordList[1]
          /\ fnResult.value.imposterWord = fnCall.wordList[1]
    /\ fnCall.mode = "CLASSIC" =>
          /\ fnResult.returned
          /\ fnResult.value.imposterWord = NoWord
          /\ fnResult.calls = 1

RejectedWith(s, codes) ==
    /\ rooms' = rooms
    /\ \E m \in outbox' : m.ev = "error" /\ m.to = {s} /\ m.data.code \in codes

\* the step appended s to room roomId unless it was in it, and touched no other room
JoinedOnce(s, roomId) ==
    /\ Len(rooms') = Len(rooms)
    /\ \A i \in 1..Len(rooms) :
          IF rooms[i].id # roomId THEN rooms'[i] = rooms[i]
          ELSE /\ rooms'[i] = [rooms[i] EXCEPT !.players =
                                  IF InRoom(rooms[i], s) THEN @ ELSE Append(@, <<s, players[s]>>)]
               /\ Cardinality({j \in 1..Len(rooms'[i].players) : Sid(rooms'[i].players[j]) = s}) = 1

\* what join_room must do for socket s, room id and password in the current state
JoinRoomOutcome(s, roomId, password) ==
    IF ~HasRoom(rooms, roomId) THEN RejectedWith(s, {"ROOM NOT FOUND"})
    ELSE LET room == GetRoom(rooms, roomId)
             started == room.status # "LOBBY"
             full == Len(room.players) >= room.maxPlayers
         IN  IF room.password # NoWord /\ room.password # password
             THEN RejectedWith(s, {"INCORRECT PASSWORD"})
             ELSE IF started /\ full THEN RejectedWith(s, {"GAME ALREADY STARTED", "ROOM IS FULL"})
             ELSE IF started THEN RejectedWith(s, {"GAME ALREADY STARTED"})
             ELSE IF full THEN RejectedWith(s, {"ROOM IS FULL"})
             ELSE JoinedOnce(s, roomId)

HintRoomOf(s) == LET Mine(r) == InRoom(r, s) /\ HasGame(r) /\ r.gameState.phase = "HINT_ROUND"
                 IN  IF SomeRoom(rooms, Mine) THEN FirstRoom(rooms, Mine) ELSE NoRoom
SpeakerIn(room) == LET activePlayers == ActivePlayers(room, objs)
                       idx == room.gameState.currentTurnIndex
                   IN  IF idx + 1 \in 1..Len(activePlayers) THEN activePlayers[idx + 1] ELSE NoWord

\* the step answered s with this error; hint lists, turn index and timers are as before
HintRejected(s, code) ==
    /\ RejectedWith(s, {code})
    /\ timers' = timers /\ objs' = objs

\* the step stored one more hint for s in the room, and not the word in any spelling
HintStored(s, room) ==
    LET after == GetRoom(rooms', room.id)
        before == MapGet(room.gameState.hints, s, <<>>)
        now == MapGet(after.gameState.hints, s, <<>>)
    IN  /\ Len(now) = Len(before) + 1
        /\ SubSeq(now, 1, Len(before)) = before
        /\ ToLower(now[Len(now)]) # ToLower(room.gameState.word)

EndedRoomOf(s) == LET Mine(r) == r.ownerId = s /\ r.status = "ENDED"
                  IN  IF SomeRoom(rooms, Mine) THEN FirstRoom(rooms, Mine) ELSE NoRoom

\* the step put the room back into the lobby: no game, no timer, every player's flags reset
BackInLobby(room) ==
    LET after == GetRoom(rooms', room.id)
    IN  /\ after = [room EXCEPT !.status = "LOBBY", !.gameState = NoGame]
        /\ timers'[room.id] = NoTimer
        /\ \A i \in 1..Len(room.players) :
              objs'[room.players[i]] = [objs[room.players[i]] EXCEPT !.role = "NONE", !.isEliminated = FALSE,
                                                                    !.hint = NoWord, !.hasVoted = FALSE]

\* C21: play_again acts only for the owner of a room whose status is ENDED, and then the
\* room is in LOBBY without GameState and timer and every player's role, eliminated flag,
\* hint and hasVoted flag are reset
C21_PlayAgain ==
    [][\A s \in Sessions :
          PlayAgain(s) => /\ EndedRoomOf(s) # NoRoom
                          /\ BackInLobby(EndedRoomOf(s))]_vars

\* play_again has just put an ended room with its players back into the lobby
C21_Witness ==
    \E i \in 1..Len(rooms) :
       /\ rooms[i].status = "LOBBY" /\ ~HasGame(rooms[i])
       /\ \E m \in outbox : m.ev = "game_state" /\ m.data = NoGame /\ m.to = chan[rooms[i].id]
       /\ \A j \in 1..Len(rooms[i].players) : objs[rooms[i].players[j]].role = "NONE"
       /\ Len(rooms[i].players) >= 2

\* the joined sessions of user u, given this.players
JoinedSessions(pl, u) == {s \in Sessions : pl[s] >= 0 /\ UserOf(s) = u}
SessionCount(pl, u) == Cardinality(JoinedSessions(pl, u))

\* this.userSockets lists exactly the users with a joined session, each with those sessions
PresenceIndexExact ==
    /\ \A u \in DOMAIN userSockets : userSockets[u] # {}
    /\ \A u \in Users : MapGet(userSockets, u, {}) = JoinedSessions(players, u)

\* the step called notifyFriends once, for user u with this event
Announced(u, event) == notices' = Append(notices, [userId |-> u, event |-> event])

\* the step sent nothing but the event of a waiting call, to sockets of that user's friends
Delivered ==
    \E i \in 1..Len(notices) :
       /\ notices' = SeqRemoveAt(notices, i)
       /\ \A m \in outbox' : /\ m.ev = notices[i].event
                              /\ m.data.userId = notices[i].userId
                              /\ m.to = UNION {JoinedSessions(players, f) : f \in friends[notices[i].userId]}

\* C22: friend_online is announced exactly when a user's count of joined sessions goes
\* from 0 to 1 and friend_offline exactly when it goes from 1 to 0, each announcement is
\* delivered once to the sessions of the user's friends, and the presence index holds
\* exactly the users with a joined session
C22_PresenceByCount ==
    /\ []PresenceIndexExact
    /\ [][\A u \in Users :
             /\ (SessionCount(players, u) = 0 /\ SessionCount(players', u) = 1) => Announced(u, "friend_online")
             /\ (SessionCount(players, u) = 1 /\ SessionCount(players', u) = 0) => Announced(u, "friend_offline")]_vars
    /\ [][(\A u \in Users : (SessionCount(players, u) = 0) = (SessionCount(players', u) = 0))
             => (notices' = notices \/ Delivered)]_vars
    /\ [][(\E m \in outbox' : m.ev \in {"friend_online", "friend_offline"}) => Delivered]_vars

\* one of two sessions of a user has disconnected while a friend is online, and no
\* friend_offline is waiting or was just sent
C22_Witness ==
    /\ \E u \in Users, s \in Sessions :
          /\ UserOf(s) = u /\ s \notin conn
          /\ JoinedSessions(players, u) # {}
          /\ \E f \in friends[u] : JoinedSessions(players, f) # {}
    /\ \A i \in 1..Len(notices) : notices[i].event # "friend_offline"
    /\ \A m \in outbox : m.ev # "friend_offline"

\* the recordGameEnd calls made for game g
CallsFor(g) == {k \in 1..Len(statsCalls) : statsCalls[k].gameId = g}
RowsOf(g) == uniqueParticipants(g, "CITIZENS", StatsPlayers(g))

\* the participants of a game are in the table once at most, and once, with the game
\* result, when every call for the game has returned and no statement failed
RecordedOnce ==
    \A g \in StatsGames :
       /\ db.game_participants[g] \in {<<>>, RowsOf(g)}
       /\ db.game_participants[g] # <<>> => g \in db.game_results
       /\ ( /\ CallsFor(g) # {}
            /\ \A k \in CallsFor(g) : statsCalls[k].at = "returned" /\ statsCalls[k].error # "500" )
          => (g \in db.game_results /\ db.game_participants[g] = RowsOf(g))

\* a call that was answered with an error has returned to its caller
FailureReturns == \A k \in 1..Len(statsCalls) : statsCalls[k].error # "none" => statsCalls[k].at = "returned"

RoomCreatedBy(s, roomId) ==
    \E m \in outbox' : m.ev = "room_update" /\ m.to = {s} /\ m.data.id = roomId /\ m.data.ownerId = s

\* C24: a create_room that stores a room adds one room to the store and leaves every
\* room that existed as it was
C24_FreshRoomId ==
    [][\A i \in CreateAnyInputs :
          (CreateRoom(i[1], i[2], i[3].password, i[3].gameMode) /\ RoomCreatedBy(i[1], i[2]))
             => /\ Len(rooms') = Len(rooms) + 1
                /\ \A j \in 1..Len(rooms) : rooms'[j] = rooms[j]]_vars

\* the game of room A, and the scenario's votes with p1, p2, p3 = s1, s2, s3
GameA == GetRoom(rooms, "A").gameState
GameANext == GetRoom(rooms', "A").gameState
PhaseA(ph) == HasRoom(rooms, "A") /\ HasGame(GetRoom(rooms, "A")) /\ GameA.phase = ph
TwoAgainstOne == [v \in {"s1", "s2", "s3"} |-> IF v = "s2" THEN "s1" ELSE "s2"]

\* VOTING ends with the scenario's votes: s2 is eliminated and the phase is VOTE_RESULT
TrioVotingResolved ==
    [][(PhaseA("VOTING") /\ GameANext.phase # "VOTING" /\ GameANext.votes = TwoAgainstOne)
          => /\ GameANext.phase = "VOTE_RESULT"
             /\ GameANext.eliminatedPlayerId = "s2"
             /\ objs'[<<"s2", 0>>].isEliminated]_vars

OwnedRoomOf(s) == LET Owned(r) == r.ownerId = s
                  IN  IF SomeRoom(rooms, Owned) THEN FirstRoom(rooms, Owned) ELSE NoRoom

\* the room is PLAYING in ROLE_REVEAL, its timer runs, and the one IMPOSTER is imposterId
RoleRevealRunning(room, os, ts) ==
    /\ room.status = "PLAYING" /\ HasGame(room) /\ room.gameState.phase = "ROLE_REVEAL"
    /\ ts[room.id].kind = "ROLE_REVEAL" /\ ts[room.id].timeLeft = ROLE_REVEAL_TIME
    /\ \A i \in 1..Len(room.players) :
          (os[room.players[i]].role = "IMPOSTER") = (Sid(room.players[i]) = room.gameState.imposterId)
    /\ \E i \in 1..Len(room.players) : os[room.players[i]].role = "IMPOSTER"

\* C26: after start_game by the owner of a room with at least MIN_PLAYERS players the room
\* is PLAYING in ROLE_REVEAL with its timer running and exactly one IMPOSTER, the player
\* imposterId names
C26_StartGameRuns ==
    [][\A s \in Sessions :
          (OwnedRoomOf(s) # NoRoom /\ Len(OwnedRoomOf(s).players) >= MIN_PLAYERS /\ StartGame(s))
             => RoleRevealRunning(GetRoom(rooms', OwnedRoomOf(s).id), objs', timers')]_vars

\* room id is in phase ph
InPhase(id, ph) == HasRoom(rooms, id) /\ HasGame(GetRoom(rooms, id)) /\ GetRoom(rooms, id).gameState.phase = ph

\* the step is the last tick of the VOTING timer of room id
VotingExpires(id) ==
    /\ InPhase(id, "VOTING")
    /\ timers[id].kind = "VOTING" /\ ~timers[id].orphan /\ timers[id].timeLeft <= 1
    /\ Tick(id)

\* the step is an accepted submit_vote after which every player of room id that is not
\* eliminated has a vote
AllVotes == VoteInputs \cup GameVoteInputs \cup TrioVoteInputs \cup LeaverVoteInputs
LastVoteCast(id) ==
    /\ InPhase(id, "VOTING")
    /\ \E i \in AllVotes :
          /\ InRoom(GetRoom(rooms, id), i[1])
          /\ \A j \in 1..Len(GetRoom(rooms, id).players) :
                LET o == GetRoom(rooms, id).players[j]
                IN  objs[o].isEliminated \/ Sid(o) \in DOMAIN GetRoom(rooms, id).gameState.votes \cup {i[1]}
          /\ SubmitVote(i[1], i[2])
          /\ \A m \in outbox' : m.ev # "error"

\* room id is in VOTE_RESULT after the step; the unique top target of the tally, if
\* there is one, is the player newly eliminated and named, otherwise nobody is
VoteResolved(id) ==
    /\ HasRoom(rooms', id) /\ HasGame(GetRoom(rooms', id))
    /\ LET before == GetRoom(rooms, id)
           after == GetRoom(rooms', id)
           votes == after.gameState.votes
           top == {t \in Range(votes) : StrictLeader(votes, t)}
           Kept(o) == objs'[o].isEliminated = objs[o].isEliminated
       IN  /\ after.gameState.phase = "VOTE_RESULT"
           /\ after.players = before.players
           /\ IF top = {}
              THEN /\ after.gameState.eliminatedPlayerId = NoOne
                   /\ \A j \in 1..Len(after.players) : Kept(after.players[j])
              ELSE /\ {after.gameState.eliminatedPlayerId} = top
                   /\ \E j \in 1..Len(after.players) :
                         /\ {Sid(after.players[j])} = top
                         /\ objs'[after.players[j]].isEliminated
                   /\ \A j \in 1..Len(after.players) : Sid(after.players[j]) \notin top => Kept(after.players[j])

VoteResultExpires(id) ==
    /\ InPhase(id, "VOTE_RESULT")
    /\ timers[id].kind = "VOTE_RESULT" /\ ~timers[id].orphan /\ timers[id].timeLeft <= 1
    /\ Tick(id)

\* the imposter of the room's game is one of its players and is marked eliminated
ImposterOut(room, os) ==
    \E j \in 1..Len(room.players) :
        Sid(room.players[j]) = room.gameState.imposterId /\ os[room.players[j]].isEliminated

\* the citizens of the room that are not eliminated
CitizensLeft(room, os) ==
    {j \in 1..Len(room.players) : os[room.players[j]].role = "CITIZEN" /\ ~os[room.players[j]].isEliminated}

\* the game of room id is over after the step, won by winner, with no timer left
GameEnded(id, winner) ==
    LET after == GetRoom(rooms', id)
    IN  /\ after.gameState.winner = winner
        /\ after.status = "ENDED"
        /\ after.gameState.phase = "GAME_OVER"
        /\ timers'[id].kind = "NONE"

\* the game of room id goes on after the step with a new round
GameGoesOn(id) ==
    LET before == GetRoom(rooms, id)
        after == GetRoom(rooms', id)
    IN  /\ after.gameState.winner = before.gameState.winner
        /\ before.gameState.winner \notin {"CITIZENS", "IMPOSTER"}
        /\ after.status = before.status
        /\ after.gameState.roundNumber = before.gameState.roundNumber + 1
        /\ after.gameState.hints = EmptyMap
        /\ after.gameState.votes = EmptyMap
        /\ after.gameState.eliminatedPlayerId = NoOne
        /\ after.players = before.players
        /\ \A j \in 1..Len(before.players) :
              objs'[before.players[j]].isEliminated = objs[before.players[j]].isEliminated
        /\ after.gameState.phase = "HINT_ROUND"

\* C28: when VOTE_RESULT completes, an eliminated imposter gives winner CITIZENS, otherwise
\* at most one citizen left gives winner IMPOSTER, both with status ENDED, phase GAME_OVER
\* and no timer; otherwise no winner is set, roundNumber grows by one, hints, votes and
\* eliminatedPlayerId are cleared, the eliminated flags are kept and the phase is HINT_ROUND
C28_VoteResultOutcome ==
    [][\A id \in RoomIds : VoteResultExpires(id) =>
          /\ HasRoom(rooms', id) /\ HasGame(GetRoom(rooms', id))
          /\ IF ImposterOut(GetRoom(rooms, id), objs) THEN GameEnded(id, "CITIZENS")
             ELSE IF Cardinality(CitizensLeft(GetRoom(rooms, id), objs)) <= 1 THEN GameEnded(id, "IMPOSTER")
             ELSE GameGoesOn(id)]_vars

\* a game went on after a vote: a new hint round with a player eliminated and no votes
C28_Witness ==
    /\ InPhase("A", "HINT_ROUND")
    /\ GameA.votes = EmptyMap /\ GameA.roundNumber > 1
    /\ \E j \in 1..Len(GetRoom(rooms, "A").players) : objs[GetRoom(rooms, "A").players[j]].isEliminated

\* every player of the room that is not eliminated has a recorded vote
AllVoted(room, os) ==
    \A j \in 1..Len(room.players) :
        os[room.players[j]].isEliminated \/ Sid(room.players[j]) \in DOMAIN room.gameState.votes

\* the step is a submit_vote or a disconnect after which room id, in VOTING before it,
\* has a vote recorded for every player that is not eliminated, which it had not before
VotesBecomeComplete(id) ==
    /\ InPhase(id, "VOTING")
    /\ ~AllVoted(GetRoom(rooms, id), objs)
    /\ \/ \E s \in Sessions : Disconnect(s)
       \/ \E i \in AllVotes : SubmitVote(i[1], i[2])
    /\ HasRoom(rooms', id) /\ HasGame(GetRoom(rooms', id))
    /\ AllVoted(GetRoom(rooms', id), objs')

HintRoundMovesOn(id) ==
    /\ InPhase(id, "HINT_ROUND")
    /\ HasRoom(rooms', id) /\ HasGame(GetRoom(rooms', id))
    /\ LET before == GetRoom(rooms, id).gameState
           after == GetRoom(rooms', id).gameState
       IN  \/ after.phase = "DISCUSSION"
           \/ after.phase = "HINT_ROUND" /\ after.roundNumber > before.roundNumber

\* every player of room id left after the step that is not eliminated has a hint, given
\* or the timeout marker, for the round the step ends
EveryoneHinted(id) ==
    LET round == GetRoom(rooms, id).gameState.roundNumber
        \* hints pile up over the HINT_ROUNDS rounds of the first cycle; a cycle after a vote
        \* starts from no hints and has one round
        owed == IF round <= HINT_ROUNDS THEN round ELSE 1
        after == GetRoom(rooms', id)
    IN  \A j \in 1..Len(after.players) :
            \/ objs'[after.players[j]].isEliminated
            \/ HintCount(after.gameState, Sid(after.players[j])) >= owed

TurnExpires(id) ==
    /\ InPhase(id, "HINT_ROUND")
    /\ timers[id].kind = "HINT_TURN" /\ ~timers[id].orphan /\ timers[id].timeLeft <= 1
    /\ SpeakerIn(GetRoom(rooms, id)) # NoWord
    /\ Tick(id)

\* the step appended the timeout marker to the speaker's hints and the turn moved on: to a
\* later index, or out of the hint turns
TimedOut(id) ==
    LET before == GetRoom(rooms, id)
        speaker == SpeakerIn(before)
        after == GetRoom(rooms', id)
    IN  /\ HasRoom(rooms', id) /\ HasGame(after)
        /\ MapGet(after.gameState.hints, speaker, <<>>)
              = Append(MapGet(before.gameState.hints, speaker, <<>>), "(Timed out)")
        /\ \/ after.gameState.phase = "HINT_ROUND"
              /\ after.gameState.currentTurnIndex > before.gameState.currentTurnIndex
           \/ after.gameState.phase = "HINT_ROUND" /\ timers'[id].kind = "HINT_SHOW"
           \/ after.gameState.phase = "DISCUSSION"

\* C31: a hint turn that expires without a submission appends "(Timed out)" to the
\* speaker's hints and the turn advances; with the timers ticking and no client input
\* every HINT_ROUND reaches DISCUSSION, then VOTING, then VOTE_RESULT
C31_TimeoutsNeverStall ==
    /\ [][\A id \in RoomIds : TurnExpires(id) => TimedOut(id)]_vars
    /\ PhaseA("HINT_ROUND") ~> PhaseA("DISCUSSION")
    /\ PhaseA("DISCUSSION") ~> PhaseA("VOTING")
    /\ PhaseA("VOTING") ~> PhaseA("VOTE_RESULT")

\* a vote result reached by timers alone: every player's hint is the timeout marker
C31_Witness ==
    /\ InPhase("A", "VOTE_RESULT")
    /\ \A j \in 1..Len(GetRoom(rooms, "A").players) :
          MapGet(GameA.hints, Sid(GetRoom(rooms, "A").players[j]), <<>>) = <<"(Timed out)">>

GameOverKept(id) ==
    LET before == GetRoom(rooms, id)
        after == GetRoom(rooms', id)
    IN  /\ HasGame(after)
        /\ after.gameState.phase = "GAME_OVER"
        /\ after.gameState.winner = before.gameState.winner
        /\ after.gameState.votes = before.gameState.votes
        /\ \A j \in 1..Len(after.players) :
              /\ \E i \in 1..Len(before.players) : before.players[i] = after.players[j]
              /\ objs'[after.players[j]].isEliminated = objs[after.players[j]].isEliminated
        /\ timers'[id].kind = "NONE"

\* C33: a room in GAME_OVER has no timer, and no step changes its phase, winner, votes or
\* eliminated flags, be it a tick, a submit_vote, a submit_hint or a disconnect or leave
\* of a player, until the owner sends play_again or the room is deleted with its last player
C33_GameOverTerminal ==
    /\ [](\A id \in RoomIds : InPhase(id, "GAME_OVER") => timers[id].kind = "NONE")
    /\ [][\A id \in RoomIds : InPhase(id, "GAME_OVER") =>
            \/ PlayAgain(GetRoom(rooms, id).ownerId)
            \/ ~HasRoom(rooms', id)
            \/ GameOverKept(id)]_vars

\* a finished game a player walked out of: the owner and the result are still there
C33_Witness ==
    /\ InPhase("A", "GAME_OVER")
    /\ GameA.votes # EmptyMap
    /\ Len(GetRoom(rooms, "A").players) < Len(Arrival)
    /\ \E j \in 1..Len(GetRoom(rooms, "A").players) : objs[GetRoom(rooms, "A").players[j]].isEliminated

\* socket s disconnects in this step from room id, which is PLAYING and keeps its game
DisconnectsFromGame(s, id) ==
    /\ HasRoom(rooms, id)
    /\ InRoom(GetRoom(rooms, id), s)
    /\ GetRoom(rooms, id).status = "PLAYING" /\ HasGame(GetRoom(rooms, id))
    /\ Disconnect(s)
    /\ HasRoom(rooms', id) /\ HasGame(GetRoom(rooms', id))

\* C34: right after a player disconnects from a PLAYING room that keeps its game,
\* turnOrder is the previous one without that player, the others in their order, and
\* currentTurnIndex is an index into it: the previous index, or the previous index modulo
\* the new length when it was past the end
C34_TurnOrderAfterDisconnect ==
    [][\A s \in Sessions, id \in RoomIds : DisconnectsFromGame(s, id) =>
          LET before == GetRoom(rooms, id).gameState
              after == GetRoom(rooms', id).gameState
              n == Len(after.turnOrder)
          IN  /\ after.turnOrder = SelectSeq(before.turnOrder, LAMBDA x : x # s)
              /\ after.currentTurnIndex \in 0..(n - 1)
              /\ after.currentTurnIndex = IF before.currentTurnIndex >= n
                                          THEN before.currentTurnIndex % n
                                          ELSE before.currentTurnIndex]_vars

\* a hint round whose index wrapped: a player is gone from turnOrder and the turn is back
\* at the first player, who has given a hint
C34_Witness ==
    /\ PhaseA("HINT_ROUND")
    /\ Len(GameA.turnOrder) < Len(Arrival)
    /\ GameA.currentTurnIndex = 0
    /\ HintCount(GameA, GameA.turnOrder[1]) > 0

\* the place in rand's stream of the first draw after the first that falls on another index
FirstOtherDraw(wl, draws) ==
    CHOOSE i \in 2..Len(draws) :
        /\ FloorRand(draws[i], Len(wl)) # FloorRand(draws[1], Len(wl))
        /\ \A j \in 2..(i - 1) : FloorRand(draws[j], Len(wl)) = FloorRand(draws[1], Len(wl))

StatusMatchesPhase(room) ==
    CASE room.status = "LOBBY" -> ~HasGame(room) /\ timers[room.id].kind = "NONE"
      [] room.status = "PLAYING" ->
            /\ HasGame(room)
            /\ room.gameState.phase \in {"ROLE_REVEAL", "HINT_ROUND", "DISCUSSION", "VOTING", "VOTE_RESULT"}
            /\ room.gameState.winner = "NONE"
      [] room.status = "ENDED" ->
            /\ HasGame(room)
            /\ room.gameState.phase = "GAME_OVER"
            /\ room.gameState.winner \in {"CITIZENS", "IMPOSTER"}
      [] OTHER -> FALSE

GameIdentity(room, os) ==
    [gameId |-> room.gameState.gameId, imposterId |-> room.gameState.imposterId,
     word |-> room.gameState.word, imposterWord |-> room.gameState.imposterWord,
     roles |-> [i \in 1..Len(room.players) |-> <<Sid(room.players[i]), os[room.players[i]].role>>]]

\* room id holds a game before and after the step and has not returned to LOBBY
StillPlayed(id) ==
    /\ HasRoom(rooms, id) /\ HasGame(GetRoom(rooms, id))
    /\ HasRoom(rooms', id) /\ HasGame(GetRoom(rooms', id))
    /\ GetRoom(rooms', id).status \in {"PLAYING", "ENDED"}
    /\ PlayerIds(GetRoom(rooms', id)) = PlayerIds(GetRoom(rooms, id))

\* C38: while a room's game is played, no step changes its gameId, its imposter, its
\* words or the roles of its players; start_game in a PLAYING or ENDED room deals nothing anew
C38_GameIdentityFixed ==
    [][\A id \in RoomIds :
          StillPlayed(id) => GameIdentity(GetRoom(rooms', id), objs') = GameIdentity(GetRoom(rooms, id), objs)]_vars

\* in a room that is voting, a player is flagged hasVoted exactly when votes has the player's entry
FlagsMatchVotes(room, os) ==
    \A i \in 1..Len(room.players) :
       os[room.players[i]].hasVoted <=> Sid(room.players[i]) \in DOMAIN room.gameState.votes

NewlyEliminated(id) ==
    {o \in Range(GetRoom(rooms', id).players) :
        objs'[o].isEliminated /\ (o \in Range(GetRoom(rooms, id).players) => ~objs[o].isEliminated)}

\* the step takes room id from VOTING to VOTE_RESULT: its votes are resolved
VotingResolved(id) ==
    /\ InPhase(id, "VOTING")
    /\ HasRoom(rooms', id) /\ HasGame(GetRoom(rooms', id))
    /\ GetRoom(rooms', id).gameState.phase = "VOTE_RESULT"

\* the step keeps room id in the game it is playing
SameGame(id) ==
    /\ HasRoom(rooms, id) /\ HasGame(GetRoom(rooms, id))
    /\ HasRoom(rooms', id) /\ HasGame(GetRoom(rooms', id))
    /\ GetRoom(rooms', id).gameState.gameId = GetRoom(rooms, id).gameState.gameId

\* C40: a VOTING phase is resolved once: the step that resolves it, whether the last
\* submit_vote or the last tick of the voting timer, ends the phase, marks at most one
\* player eliminated and leaves exactly the VOTE_RESULT timer registered, just started;
\* no other step marks a player eliminated, and no step that stays in VOTE_RESULT
\* changes the outcome or starts the timer again
C40_VotingResolvedOnce ==
    [][\A id \in RoomIds :
          /\ VotingResolved(id) =>
                /\ Cardinality(NewlyEliminated(id)) <= 1
                /\ timers'[id] = [kind |-> "VOTE_RESULT", timeLeft |-> VOTE_RESULT_TIME,
                                  active |-> <<>>, orphan |-> FALSE]
          /\ (SameGame(id) /\ NewlyEliminated(id) # {}) => VotingResolved(id)
          /\ (SameGame(id) /\ InPhase(id, "VOTE_RESULT") /\ GetRoom(rooms', id).gameState.phase = "VOTE_RESULT") =>
                /\ timers'[id].kind = "VOTE_RESULT" /\ timers'[id].timeLeft <= timers[id].timeLeft
                /\ GetRoom(rooms', id).gameState.eliminatedPlayerId = GetRoom(rooms, id).gameState.eliminatedPlayerId]_vars

\* room A is in VOTE_RESULT after its last player voted: every player has an entry in
\* votes, one of them is eliminated and the VOTE_RESULT timer runs
C40_Witness ==
    /\ InPhase("A", "VOTE_RESULT")
    /\ DOMAIN GameA.votes = Range(PlayerIds(GetRoom(rooms, "A")))
    /\ Cardinality({o \in Range(GetRoom(rooms, "A").players) : objs[o].isEliminated}) = 1
    /\ timers["A"].kind = "VOTE_RESULT"

====
